---- MODULE Spec2Model ----
(***************************************************************************)
(* Storage and transaction core of RMDB: the slotted-page record manager   *)
(* (rm_file_handle.cpp, rm_scan.cpp), the log manager (log_manager.cpp)    *)
(* and the transaction manager (transaction_manager.cpp).                  *)
(***************************************************************************)
EXTENDS Integers, Sequences, FiniteSets, TLC

(***************************************************************************)
(* Bounds of the model and constants of the program.                       *)
(***************************************************************************)
\* data pages a file may grow to (page 0 is the file header page)
MaxPages == 2
\* file_hdr_.num_records_per_page of the modelled table
num_records_per_page == 2
\* threads, each running one transaction against the shared log manager
MaxThreads == 2
\* log records the log buffer holds: LOG_BUFFER_SIZE / log_tot_len for the
\* BEGIN, COMMIT and ABORT records, which all have the same length
LogBufferRecords == 3
\* records a transaction writes (entries of its write set)
MaxWrites == 3
\* log records one transaction running alone emits (repeated calls of
\* commit and abort emit one each)
MaxLsn == 3
RM_NO_PAGE == -1
INVALID_LSN == -1
\* page number of the first data page: RmScan starts there
RM_FIRST_RECORD_PAGE == 1

\* Record images.  The record manager copies record bytes and never looks at
\* them, so two images are told apart: all-zero bytes and one other.  A new
\* page's slots hold zero bytes.
Bufs == {0, 1}
Slots == 0 .. (num_records_per_page - 1)
PageNos == 1 .. MaxPages
Rids == [page_no : PageNos, slot_no : Slots]
NoRid == [page_no |-> RM_NO_PAGE, slot_no |-> -1]

VARIABLES
    file_hdr,   \* RmFileHdr: num_pages, first_free_page_no
    pages,      \* data page -> RmPageHdr fields, bitmap and slots
    rm_hung,    \* a record-manager call was entered that never returns
    scan_open,  \* an RmScan object exists
    scan_rid,   \* RmScan::rid_
    scan_seen,  \* the rids the loop driving the scan has read from rid()
    scan_start, \* the rids that were live when the scan was constructed
    global_lsn, \* LogManager::global_lsn_
    persist_lsn,\* LogManager::persist_lsn_
    log_buffer, \* LogManager::log_buffer_: the records serialized into it
    log_file,   \* the log file: the records write_log has written
    latch,      \* LogManager::latch_: 0 when free, else the thread owning it
    pc,         \* thread -> where it is in begin, commit or abort
    txn_state,  \* thread -> Transaction::state_ of its transaction
    prev_lsn,   \* thread -> Transaction::prev_lsn_ of its transaction
    lsn_ret,    \* thread -> the LSNs add_log_to_buffer has returned to it
    write_set,  \* thread -> Transaction::write_set_ of its transaction
    lock_set,   \* thread -> Transaction::lock_set_ of its transaction
    lock_table, \* LockManager: the locks held, <<rid, thread, "S" or "X">>
    lock_released, \* history: thread -> unlock has been called for its transaction
    begin_file, \* history: thread -> the record file when its transaction began
    txn_deleted,\* history: thread -> rids its transaction has deleted
    rid_,       \* SeqScanExecutor::rid_
    conds_,     \* SeqScanExecutor::conds_
    returned,   \* history: what the calls of SeqScanExecutor::Next have returned
    db_,        \* SmManager::db_: table name -> the names of its columns
    query,      \* the statement under analysis: its tables and one column reference
    resolved,   \* what check_column did with that reference
    index,      \* the indexes of the table: index columns -> entries <<key, rid>>
    upd_ret,    \* history: the statement an UpdateExecutor ran and how Next ended
    call,       \* thread -> the record manager call it is in and the line it is at
    ret,        \* history: thread -> how its record manager call ended
    scan_at,    \* where the thread running RmScan::next is inside it
    scan_owed   \* history: rids inserted past the scan's page and not deleted since

rmVars == <<file_hdr, pages, rm_hung>>
scanVars == <<scan_open, scan_rid, scan_seen, scan_start>>
logVars == <<global_lsn, persist_lsn, log_buffer, log_file, latch>>
thrVars == <<pc, txn_state, prev_lsn, lsn_ret>>
lockVars == <<lock_set, lock_table, lock_released>>
txnVars == <<write_set, lockVars, begin_file, txn_deleted>>
seqVars == <<rid_, conds_, returned>>
analyzeVars == <<db_, query, resolved>>
updVars == <<index, upd_ret>>
stepVars == <<call, ret, scan_at, scan_owed>>
execVars == <<seqVars, analyzeVars, updVars, stepVars>>
\* everything but the record file
notRmVars == <<scanVars, logVars, thrVars, txnVars, execVars>>
vars == <<rmVars, scanVars, logVars, thrVars, txnVars, execVars>>

(***************************************************************************)
(* Record manager: pure translations of the RmFileHandle methods.  A file  *)
(* value f is [hdr |-> file_hdr, pages |-> pages]; every method returns    *)
(* the file after the call, the error it threw ("none" when it returned)   *)
(* and the rid or the bytes it returned.                                   *)
(***************************************************************************)
EmptyPage ==
    [next_free_page_no |-> RM_NO_PAGE,
     num_records |-> 0,
     bitmap |-> [s \in Slots |-> FALSE],
     slots |-> [s \in Slots |-> 0]]

File(h, p) == [hdr |-> h, pages |-> p]

Result(f, err, rid, data) == [f |-> f, err |-> err, rid |-> rid, data |-> data]

\* a first_bit that returns the highest clear bit
last_bit_clear(bitmap) ==
    IF \E s \in Slots : ~bitmap[s]
    THEN CHOOSE s \in Slots : ~bitmap[s] /\ \A t \in Slots : t > s => bitmap[t]
    ELSE num_records_per_page

\* Bitmap::first_bit(false, bitmap, n): lowest clear bit, n when none is clear
first_bit_clear(bitmap) ==
    IF \E s \in Slots : ~bitmap[s]
    THEN CHOOSE s \in Slots : ~bitmap[s] /\ \A t \in Slots : t < s => bitmap[t]
    ELSE num_records_per_page

\* fetch_page_handle: PageNotExistError unless 0 <= page_no < num_pages
PageExists(f, page_no) == page_no >= 0 /\ page_no < f.hdr.num_pages

get_record(f, rid) ==
    IF ~PageExists(f, rid.page_no) THEN Result(f, "PageNotExist", rid, 0)
    ELSE IF ~f.pages[rid.page_no].bitmap[rid.slot_no]
         THEN Result(f, "RecordNotFound", rid, 0)
         ELSE Result(f, "none", rid, f.pages[rid.page_no].slots[rid.slot_no])

\* create_new_page_handle that leaves first_free_page_no as it was
create_new_page_handle_unlinked(f) ==
    LET no == f.hdr.num_pages
    IN  [f |-> File([f.hdr EXCEPT !.num_pages = @ + 1],
                    IF no \in PageNos
                    THEN [f.pages EXCEPT ![no] = EmptyPage] ELSE f.pages),
         page_no |-> no,
         kind |-> "new"]

\* create_new_page_handle: page number num_pages, initialised empty (the
\* model holds MaxPages pages; no insert is taken that needs one more)
create_new_page_handle(f) ==
    LET no == f.hdr.num_pages
    IN  [f |-> File([num_pages |-> f.hdr.num_pages + 1,
                     first_free_page_no |->
                        IF f.hdr.first_free_page_no = RM_NO_PAGE
                        THEN no ELSE f.hdr.first_free_page_no],
                    IF no \in PageNos
                    THEN [f.pages EXCEPT ![no] = EmptyPage] ELSE f.pages),
         page_no |-> no,
         kind |-> "new"]

\* create_page_handle: the head of the free list, skipping (and unlinking)
\* full pages; the recursion never returns when it meets a page again,
\* because no page changes between two visits.
RECURSIVE create_page_handle_from(_, _)
create_page_handle_from(f, visited) ==
    IF f.hdr.first_free_page_no = RM_NO_PAGE THEN create_new_page_handle(f)
    ELSE LET no == f.hdr.first_free_page_no
         IN  IF ~PageExists(f, no)
             THEN [f |-> f, page_no |-> no, kind |-> "PageNotExist"]
             ELSE IF f.pages[no].num_records = num_records_per_page
             THEN IF no \in visited
                  THEN [f |-> f, page_no |-> no, kind |-> "diverges"]
                  ELSE create_page_handle_from(
                           File([f.hdr EXCEPT !.first_free_page_no =
                                     f.pages[no].next_free_page_no], f.pages),
                           visited \cup {no})
             ELSE [f |-> f, page_no |-> no, kind |-> "fetched"]

create_page_handle(f) == create_page_handle_from(f, {})

\* does insert_record need a page the bound on the file size forbids?
NeedsNewPage(f) == create_page_handle(f).kind = "new"

insert_record(f, buf) ==
    LET h == create_page_handle(f)
    IN  IF h.kind \in {"diverges", "PageNotExist"}
        THEN Result(h.f, h.kind, NoRid, 0)
        ELSE LET g == h.f
                 no == h.page_no
                 slot_no == first_bit_clear(g.pages[no].bitmap)
                 pg == [g.pages[no] EXCEPT
                           !.slots[slot_no] = buf,
                           !.bitmap[slot_no] = TRUE,
                           !.num_records = @ + 1]
                 hd == IF pg.num_records = num_records_per_page
                       THEN [g.hdr EXCEPT !.first_free_page_no =
                                pg.next_free_page_no]
                       ELSE g.hdr
             IN  Result(File(hd, [g.pages EXCEPT ![no] = pg]), "none",
                        [page_no |-> no, slot_no |-> slot_no], buf)

\* insert_record(rid, buf) without the num_records++ of line 126
insert_record_at_nocount(f, rid, buf) ==
    IF ~PageExists(f, rid.page_no) THEN Result(f, "PageNotExist", rid, 0)
    ELSE IF f.pages[rid.page_no].bitmap[rid.slot_no]
         THEN Result(f, "Internal", rid, 0)
         ELSE Result(File(f.hdr,
                          [f.pages EXCEPT ![rid.page_no] =
                              [@ EXCEPT !.slots[rid.slot_no] = buf,
                                        !.bitmap[rid.slot_no] = TRUE]]),
                     "none", rid, buf)

insert_record_at(f, rid, buf) ==
    IF ~PageExists(f, rid.page_no) THEN Result(f, "PageNotExist", rid, 0)
    ELSE IF f.pages[rid.page_no].bitmap[rid.slot_no]
         THEN Result(f, "Internal", rid, 0)
         ELSE Result(File(f.hdr,
                          [f.pages EXCEPT ![rid.page_no] =
                              [@ EXCEPT !.slots[rid.slot_no] = buf,
                                        !.bitmap[rid.slot_no] = TRUE,
                                        !.num_records = @ + 1]]),
                     "none", rid, buf)

\* release_page_handle that relinks the page whatever its num_records
release_page_handle_always(f, no) ==
    File([f.hdr EXCEPT !.first_free_page_no = no],
         [f.pages EXCEPT ![no].next_free_page_no = f.hdr.first_free_page_no])

\* release_page_handle: relink at the head when num_records is N - 1
release_page_handle(f, no) ==
    IF f.pages[no].num_records = num_records_per_page - 1
    THEN File([f.hdr EXCEPT !.first_free_page_no = no],
              [f.pages EXCEPT ![no].next_free_page_no =
                                   f.hdr.first_free_page_no])
    ELSE f

delete_record(f, rid) ==
    IF ~PageExists(f, rid.page_no) THEN Result(f, "PageNotExist", rid, 0)
    ELSE IF ~f.pages[rid.page_no].bitmap[rid.slot_no]
         THEN Result(f, "RecordNotFound", rid, 0)
         ELSE Result(release_page_handle(
                         File(f.hdr,
                              [f.pages EXCEPT ![rid.page_no] =
                                  [@ EXCEPT !.bitmap[rid.slot_no] = FALSE,
                                            !.num_records = @ - 1]]),
                         rid.page_no),
                     "none", rid, 0)

\* update_record that takes slot 0 of the page for get_slot(rid.slot_no)
update_record_slot0(f, rid, buf) ==
    IF ~PageExists(f, rid.page_no) THEN Result(f, "PageNotExist", rid, 0)
    ELSE IF ~f.pages[rid.page_no].bitmap[rid.slot_no]
         THEN Result(f, "RecordNotFound", rid, 0)
         ELSE Result(File(f.hdr,
                          [f.pages EXCEPT ![rid.page_no].slots[0] = buf]),
                     "none", rid, buf)

\* update_record that copies buf into the slot before it looks at the bitmap
update_record_early(f, rid, buf) ==
    IF ~PageExists(f, rid.page_no) THEN Result(f, "PageNotExist", rid, 0)
    ELSE IF ~f.pages[rid.page_no].bitmap[rid.slot_no]
         THEN Result(File(f.hdr,
                          [f.pages EXCEPT ![rid.page_no].slots[rid.slot_no] = buf]),
                     "RecordNotFound", rid, 0)
         ELSE Result(File(f.hdr,
                          [f.pages EXCEPT ![rid.page_no].slots[rid.slot_no] = buf]),
                     "none", rid, buf)

update_record(f, rid, buf) ==
    IF ~PageExists(f, rid.page_no) THEN Result(f, "PageNotExist", rid, 0)
    ELSE IF ~f.pages[rid.page_no].bitmap[rid.slot_no]
         THEN Result(f, "RecordNotFound", rid, 0)
         ELSE Result(File(f.hdr,
                          [f.pages EXCEPT ![rid.page_no].slots[rid.slot_no] = buf]),
                     "none", rid, buf)

(***************************************************************************)
(* Single-threaded record manager: one action per call.                    *)
(***************************************************************************)
TheFile == File(file_hdr, pages)

RmInit ==
    /\ file_hdr = [num_pages |-> RM_FIRST_RECORD_PAGE,
                   first_free_page_no |-> RM_NO_PAGE]
    /\ pages = [p \in PageNos |-> EmptyPage]
    /\ rm_hung = FALSE

\* a call that never returns leaves the single thread inside it for ever
RmRunning == ~rm_hung

\* the file after a call; an error leaves what the call had done before it
RmApply(r) ==
    /\ file_hdr' = r.f.hdr
    /\ pages' = r.f.pages
    /\ rm_hung' = (r.err = "diverges")
    /\ UNCHANGED notRmVars

\* insert_record(buf, nullptr) for a buf of the set B
InsertRecordOf(B) ==
    /\ RmRunning
    /\ NeedsNewPage(TheFile) => file_hdr.num_pages <= MaxPages
    /\ \E buf \in B : RmApply(insert_record(TheFile, buf))

InsertRecord == InsertRecordOf(Bufs)

\* insert_record(rid, buf) for a buf of the set B
InsertRecordAtOf(B) ==
    /\ RmRunning
    /\ \E rid \in Rids, buf \in B :
           RmApply(insert_record_at(TheFile, rid, buf))

InsertRecordAt == InsertRecordAtOf(Bufs)

DeleteRecord ==
    /\ RmRunning
    /\ \E rid \in Rids : RmApply(delete_record(TheFile, rid))

\* update_record(rid, buf, nullptr) for a buf of the set B
UpdateRecordOf(B) ==
    /\ RmRunning
    /\ \E rid \in Rids, buf \in B :
           RmApply(update_record(TheFile, rid, buf))

UpdateRecord == UpdateRecordOf(Bufs)

GetRecord ==
    /\ RmRunning
    /\ \E rid \in Rids : RmApply(get_record(TheFile, rid))

RmNext == InsertRecord \/ InsertRecordAt \/ DeleteRecord \/ UpdateRecord \/ GetRecord

ScanIdle ==
    /\ scan_open = FALSE
    /\ scan_rid = NoRid
    /\ scan_seen = <<>>
    /\ scan_start = {}

Threads == 1 .. MaxThreads

LogIdle ==
    /\ global_lsn = 0
    /\ persist_lsn = INVALID_LSN
    /\ log_buffer = <<>>
    /\ log_file = <<>>
    /\ latch = 0

ThreadsIdle ==
    /\ pc = [t \in Threads |-> "start"]
    /\ txn_state = [t \in Threads |-> "NONE"]
    /\ prev_lsn = [t \in Threads |-> INVALID_LSN]
    /\ lsn_ret = [t \in Threads |-> <<>>]

TxnIdle ==
    /\ write_set = [t \in Threads |-> <<>>]
    /\ lock_set = [t \in Threads |-> {}]
    /\ lock_table = {}
    /\ lock_released = [t \in Threads |-> FALSE]
    /\ begin_file = [t \in Threads |-> <<>>]
    /\ txn_deleted = [t \in Threads |-> {}]

TabCol(tab_name, col_name) == [tab_name |-> tab_name, col_name |-> col_name]

\* tab_.indexes: the column lists of the indexes of the table t(k, v)
Indexes == {<<"k">>, <<"k", "v">>}

\* how Next of an UpdateExecutor ended: the exception thrown ("none" when it
\* returned), the rid it was at, the rids and set clauses it was given, and
\* the indexes as they were when it began that rid
UpdateRet(err, rid, rids, set_clauses, row_index) ==
    [err |-> err, rid |-> rid, rids |-> rids, set_clauses |-> set_clauses,
     row_index |-> row_index]

\* no UpdateExecutor has run
NotRun == UpdateRet("pending", NoRid, <<>>, <<>>, <<>>)

\* no table with indexes is open
UpdateIdle ==
    /\ index = [ix \in Indexes |-> {}]
    /\ upd_ret = NotRun

\* the outcome of check_column: the error thrown, or the column returned
Checked(err, col) == [err |-> err, col |-> col]

\* check_column has not been called
Unchecked == Checked("pending", TabCol("", ""))

\* no SeqScanExecutor exists
SeqIdle ==
    /\ rid_ = NoRid
    /\ conds_ = <<>>
    /\ returned = <<>>

\* no statement is under analysis
AnalyzeIdle ==
    /\ db_ = <<>>
    /\ query = [tables |-> <<>>, col |-> TabCol("", "")]
    /\ resolved = Unchecked

\* no thread is in a record manager call
NoCall == [op |-> "none", step |-> "none", rid |-> NoRid, buf |-> 0]

\* what a call returned or threw: the error ("none" when it returned), the
\* rid, the bytes, and for get_record whether the bit of the slot was set
\* when the bytes were copied
Ret(err, rid, data, live) == [err |-> err, rid |-> rid, data |-> data, live |-> live]

NoRet == Ret("pending", NoRid, 0, FALSE)

StepIdle ==
    /\ call = [t \in Threads |-> NoCall]
    /\ ret = [t \in Threads |-> NoRet]
    /\ scan_at = "idle"
    /\ scan_owed = {}

ExecIdle ==
    /\ SeqIdle
    /\ AnalyzeIdle
    /\ UpdateIdle
    /\ StepIdle

InitRM ==
    /\ RmInit
    /\ ScanIdle
    /\ ExecIdle
    /\ LogIdle
    /\ ThreadsIdle
    /\ TxnIdle

SpecRM == InitRM /\ [][RmNext]_vars

\* the calls that statements make: insert_record at a given rid is the
\* recovery path and has no caller among the executors and the transaction
\* manager
\* The page headers, the bitmaps and the free list do not depend on the bytes
\* of the records: the same calls, all records with the same bytes.
SameBuf == {1}

LayoutInsertRecord == InsertRecordOf(SameBuf)

LayoutInsertRecordAt == InsertRecordAtOf(SameBuf)

LayoutUpdateRecord == UpdateRecordOf(SameBuf)

RmLayoutNext ==
    \/ LayoutInsertRecord
    \/ LayoutInsertRecordAt
    \/ DeleteRecord
    \/ LayoutUpdateRecord
    \/ GetRecord

SpecRMLayout == InitRM /\ [][RmLayoutNext]_vars

RmStatementNext == InsertRecord \/ DeleteRecord \/ UpdateRecord \/ GetRecord

SpecRMStatements == InitRM /\ [][RmStatementNext]_vars

(***************************************************************************)
(* Files a program can have built before the part under study starts: k    *)
(* records inserted into a new file, then some of them deleted.            *)
(***************************************************************************)
EmptyFile ==
    File([num_pages |-> RM_FIRST_RECORD_PAGE, first_free_page_no |-> RM_NO_PAGE],
         [p \in PageNos |-> EmptyPage])

RECURSIVE InsertMany(_, _)
InsertMany(f, k) ==
    IF k = 0 THEN f ELSE insert_record(InsertMany(f, k - 1), k % 2).f

LiveRids(f) == {r \in Rids : PageExists(f, r.page_no) /\ f.pages[r.page_no].bitmap[r.slot_no]}

RidBefore(a, b) ==
    a.page_no < b.page_no \/ (a.page_no = b.page_no /\ a.slot_no < b.slot_no)

RECURSIVE DeleteAll(_, _)
DeleteAll(f, D) ==
    IF D = {} THEN f
    ELSE LET r == CHOOSE x \in D : \A y \in D : y = x \/ RidBefore(x, y)
         IN  DeleteAll(delete_record(f, r).f, D \ {r})

SetupFiles(maxRecords) ==
    UNION {{DeleteAll(InsertMany(EmptyFile, k), D) :
                D \in SUBSET LiveRids(InsertMany(EmptyFile, k))} :
           k \in 0 .. maxRecords}

(***************************************************************************)
(* RmScan over a file that no call changes while the scan object exists.   *)
(***************************************************************************)
\* lowest set bit of the page above slot_no, num_records_per_page if none
NextSetSlot(bitmap, slot_no) ==
    IF \E s \in Slots : s > slot_no /\ bitmap[s]
    THEN CHOOSE s \in Slots :
             /\ s > slot_no /\ bitmap[s]
             /\ \A t \in Slots : (t > slot_no /\ t < s) => ~bitmap[t]
    ELSE num_records_per_page

\* RmScan::next that restarts a following page at slot 0 instead of -1
RECURSIVE scan_next_from0(_, _)
scan_next_from0(f, rid) ==
    IF rid.page_no < f.hdr.num_pages
    THEN LET s == NextSetSlot(f.pages[rid.page_no].bitmap, rid.slot_no)
         IN  IF s < num_records_per_page
             THEN [page_no |-> rid.page_no, slot_no |-> s]
             ELSE scan_next_from0(f, [page_no |-> rid.page_no + 1, slot_no |-> 0])
    ELSE [page_no |-> f.hdr.num_pages, slot_no |-> 0]

\* RmScan::next
RECURSIVE scan_next(_, _)
scan_next(f, rid) ==
    IF rid.page_no < f.hdr.num_pages
    THEN LET s == NextSetSlot(f.pages[rid.page_no].bitmap, rid.slot_no)
         IN  IF s < num_records_per_page
             THEN [page_no |-> rid.page_no, slot_no |-> s]
             ELSE scan_next(f, [page_no |-> rid.page_no + 1, slot_no |-> -1])
    ELSE [page_no |-> f.hdr.num_pages, slot_no |-> 0]

\* RmScan::is_end
scan_is_end(f, rid) == rid.page_no >= f.hdr.num_pages

\* RmScan::RmScan
ScanCreate ==
    /\ ~scan_open
    /\ scan_open' = TRUE
    /\ scan_rid' = scan_next(TheFile, [page_no |-> RM_FIRST_RECORD_PAGE, slot_no |-> -1])
    /\ scan_seen' = <<>>
    /\ scan_start' = LiveRids(TheFile)
    /\ UNCHANGED <<rmVars, logVars, thrVars, txnVars, execVars>>

\* one round of the loop  for (; !scan.is_end(); scan.next()) use(scan.rid())
ScanNext ==
    /\ scan_open
    /\ ~scan_is_end(TheFile, scan_rid)
    /\ scan_seen' = Append(scan_seen, scan_rid)
    /\ scan_rid' = scan_next(TheFile, scan_rid)
    /\ UNCHANGED <<rmVars, scan_open, scan_start, logVars, thrVars, txnVars, execVars>>

\* the loop is over and the scan object is destroyed
ScanClose ==
    /\ scan_open
    /\ scan_is_end(TheFile, scan_rid)
    /\ scan_open' = FALSE
    /\ scan_rid' = NoRid
    /\ scan_seen' = <<>>
    /\ scan_start' = {}
    /\ UNCHANGED <<rmVars, logVars, thrVars, txnVars, execVars>>

\* between two scans the file changes by insert_record and delete_record,
\* which reach every bitmap a file can have
ScanFileChange ==
    /\ ~scan_open
    /\ InsertRecord \/ DeleteRecord

ScanStep == ScanCreate \/ ScanNext \/ ScanClose \/ ScanFileChange

SpecScan == InitRM /\ [][ScanStep]_vars

(***************************************************************************)
(* A scan beside a thread that inserts and deletes.  RmScan::next takes no *)
(* latch, so it is run one round of its outer loop at a time, and the      *)
(* assignment after the loop is a step of its own: insert_record and       *)
(* delete_record of the other thread come between the steps.               *)
(***************************************************************************)
\* RmScan::RmScan up to the call of next()
ScanOpen ==
    /\ ~scan_open
    /\ scan_open' = TRUE
    /\ scan_rid' = [page_no |-> RM_FIRST_RECORD_PAGE, slot_no |-> -1]
    /\ scan_seen' = <<>>
    /\ scan_start' = LiveRids(TheFile)
    /\ scan_at' = "loop"
    /\ scan_owed' = {}
    /\ UNCHANGED <<rmVars, logVars, thrVars, txnVars, seqVars, analyzeVars,
                   updVars, call, ret>>

\* the loop  for (; !scan.is_end(); scan.next()) use(scan.rid())  reads rid()
\* and calls next()
ScanCallNext ==
    /\ scan_open
    /\ scan_at = "idle"
    /\ ~scan_is_end(TheFile, scan_rid)
    /\ scan_seen' = Append(scan_seen, scan_rid)
    /\ scan_at' = "loop"
    /\ UNCHANGED <<rmVars, scan_open, scan_rid, scan_start, scan_owed, logVars,
                   thrVars, txnVars, seqVars, analyzeVars, updVars, call, ret>>

\* RmScan::next lines 35-53: the test of the outer loop and one round of it
ScanLoop ==
    /\ scan_at = "loop"
    /\ IF scan_rid.page_no < file_hdr.num_pages
       THEN LET s == NextSetSlot(pages[scan_rid.page_no].bitmap, scan_rid.slot_no)
            IN  IF s < num_records_per_page
                THEN /\ scan_rid' = [scan_rid EXCEPT !.slot_no = s]
                     /\ scan_at' = "idle"
                ELSE /\ scan_rid' = [page_no |-> scan_rid.page_no + 1, slot_no |-> -1]
                     /\ scan_at' = "loop"
       ELSE /\ scan_at' = "exit"
            /\ UNCHANGED scan_rid
    /\ UNCHANGED <<rmVars, scan_open, scan_seen, scan_start, scan_owed, logVars,
                   thrVars, txnVars, seqVars, analyzeVars, updVars, call, ret>>

\* RmScan::next lines 56-57: rid_ = {num_pages, 0}
ScanExit ==
    /\ scan_at = "exit"
    /\ scan_rid' = [page_no |-> file_hdr.num_pages, slot_no |-> 0]
    /\ scan_at' = "idle"
    /\ UNCHANGED <<rmVars, scan_open, scan_seen, scan_start, scan_owed, logVars,
                   thrVars, txnVars, seqVars, analyzeVars, updVars, call, ret>>

\* the loop has seen is_end() and the scan object is destroyed
ScanEnd ==
    /\ scan_open
    /\ scan_at = "idle"
    /\ scan_is_end(TheFile, scan_rid)
    /\ scan_open' = FALSE
    /\ scan_rid' = NoRid
    /\ scan_seen' = <<>>
    /\ scan_start' = {}
    /\ scan_owed' = {}
    /\ UNCHANGED <<rmVars, logVars, thrVars, txnVars, seqVars, analyzeVars,
                   updVars, call, ret, scan_at>>

\* insert_record(buf, nullptr) of the other thread; the scan reads no slot
\* bytes, so one buf stands for all
ScanInsert ==
    /\ NeedsNewPage(TheFile) => file_hdr.num_pages <= MaxPages
    /\ \E buf \in SameBuf :
           LET r == insert_record(TheFile, buf)
           IN  /\ r.err = "none"
               /\ file_hdr' = r.f.hdr
               /\ pages' = r.f.pages
               /\ scan_owed' = IF scan_open /\ r.rid.page_no > scan_rid.page_no
                               THEN scan_owed \cup {r.rid} ELSE scan_owed
    /\ UNCHANGED <<rm_hung, scanVars, logVars, thrVars, txnVars, seqVars, analyzeVars,
                   updVars, call, ret, scan_at>>

\* delete_record(rid, nullptr) of the other thread
ScanDelete ==
    /\ \E rid \in LiveRids(TheFile) :
           /\ file_hdr' = delete_record(TheFile, rid).f.hdr
           /\ pages' = delete_record(TheFile, rid).f.pages
           /\ scan_owed' = scan_owed \ {rid}
    /\ UNCHANGED <<rm_hung, scanVars, logVars, thrVars, txnVars, seqVars, analyzeVars,
                   updVars, call, ret, scan_at>>

ScanThreadsStep ==
    \/ ScanOpen
    \/ ScanCallNext
    \/ ScanLoop
    \/ ScanExit
    \/ ScanEnd
    \/ ScanInsert
    \/ ScanDelete

SpecScanThreads == InitRM /\ [][ScanThreadsStep]_vars

(***************************************************************************)
(* Buffer-pool pins: for each call, the pins it takes (fetch_page,         *)
(* new_page) less the pins it gives back (unpin_page), page by page.       *)
(***************************************************************************)
\* a call made without a Context, or with one that carries a transaction
Contexts == {"nullptr", "txn"}

NoPins == [p \in 0 .. MaxPages + 1 |-> 0]

Pin(pins, page_no, d) == [pins EXCEPT ![page_no] = @ + d]

\* the lock request of a call: only a Context with a transaction asks, and
\* the lock manager may refuse by throwing
LockThrows(context, refused) == context = "txn" /\ refused

\* the unpin at the end of get_record, insert_record(buf), delete_record
\* and update_record: if (context != nullptr) unpin_page
UnpinIfContext(pins, page_no, context) ==
    IF context # "nullptr" THEN Pin(pins, page_no, -1) ELSE pins

get_record_pins(f, rid, context, refused) ==
    IF ~PageExists(f, rid.page_no) THEN NoPins
    ELSE LET fetched == Pin(NoPins, rid.page_no, 1)
         IN  IF ~f.pages[rid.page_no].bitmap[rid.slot_no] THEN fetched
             ELSE IF LockThrows(context, refused) THEN fetched
             ELSE UnpinIfContext(fetched, rid.page_no, context)

\* create_page_handle: a full page on the way is fetched and unpinned, the
\* page returned stays pinned
create_page_handle_pins(f) ==
    LET h == create_page_handle(f)
    IN  IF h.kind \in {"new", "fetched"} THEN Pin(NoPins, h.page_no, 1)
        ELSE NoPins

insert_record_pins(f, context, refused) ==
    LET h == create_page_handle(f)
        created == create_page_handle_pins(f)
    IN  IF h.kind \notin {"new", "fetched"} THEN created
        ELSE IF LockThrows(context, refused) THEN created
        ELSE UnpinIfContext(created, h.page_no, context)

insert_record_at_pins(f, rid) ==
    IF ~PageExists(f, rid.page_no) THEN NoPins
    ELSE IF f.pages[rid.page_no].bitmap[rid.slot_no]
         THEN Pin(NoPins, rid.page_no, 1)
         ELSE NoPins

\* release_page_handle unpins when it relinks the page
release_page_handle_pins(f, pins, no) ==
    IF f.pages[no].num_records = num_records_per_page - 1
    THEN Pin(pins, no, -1) ELSE pins

delete_record_pins(f, rid, context, refused) ==
    IF ~PageExists(f, rid.page_no) THEN NoPins
    ELSE LET fetched == Pin(NoPins, rid.page_no, 1)
             cleared == File(f.hdr,
                             [f.pages EXCEPT ![rid.page_no] =
                                 [@ EXCEPT !.bitmap[rid.slot_no] = FALSE,
                                           !.num_records = @ - 1]])
         IN  IF ~f.pages[rid.page_no].bitmap[rid.slot_no] THEN fetched
             ELSE IF LockThrows(context, refused) THEN fetched
             ELSE UnpinIfContext(
                      release_page_handle_pins(cleared, fetched, rid.page_no),
                      rid.page_no, context)

update_record_pins(f, rid, context, refused) ==
    IF ~PageExists(f, rid.page_no) THEN NoPins
    ELSE LET fetched == Pin(NoPins, rid.page_no, 1)
         IN  IF ~f.pages[rid.page_no].bitmap[rid.slot_no] THEN fetched
             ELSE IF LockThrows(context, refused) THEN fetched
             ELSE UnpinIfContext(fetched, rid.page_no, context)

\* RmScan::next: one fetch_page_handle for every page the loop looks at
RECURSIVE scan_next_pins(_, _, _)
scan_next_pins(f, rid, pins) ==
    IF rid.page_no < f.hdr.num_pages
    THEN LET s == NextSetSlot(f.pages[rid.page_no].bitmap, rid.slot_no)
             fetched == Pin(pins, rid.page_no, 1)
         IN  IF s < num_records_per_page THEN fetched
             ELSE scan_next_pins(f, [page_no |-> rid.page_no + 1, slot_no |-> -1],
                                 fetched)
    ELSE pins

(***************************************************************************)
(* SeqScanExecutor over a table of one INT column: a record's bytes are    *)
(* the value of that column.  scan_open and scan_rid are its scan_.        *)
(***************************************************************************)
\* what Next returns for nullptr
nullptr == [rid |-> NoRid, data |-> -1]

\* compare(lhs, rhs, op) of the executors
compare(lhs, rhs, op) ==
    CASE op = "OP_EQ" -> lhs = rhs
      [] op = "OP_NE" -> lhs # rhs
      [] op = "OP_LT" -> lhs < rhs
      [] op = "OP_GT" -> lhs > rhs
      [] op = "OP_LE" -> lhs <= rhs
      [] op = "OP_GE" -> lhs >= rhs

Condition(op, rhs_val) == [op |-> op, rhs_val |-> rhs_val]

\* the condition vectors the planner hands to the executor
CondLists ==
    {<<>>,
     <<Condition("OP_EQ", 1)>>,
     <<Condition("OP_NE", 1)>>,
     <<Condition("OP_GE", 0), Condition("OP_LT", 1)>>,
     <<Condition("OP_LE", 1), Condition("OP_GT", 1)>>}

\* the loop over conds_ in nextTuple: left at the first condition that fails
Satisfies(data, conds) ==
    \A i \in 1 .. Len(conds) : compare(data, conds[i].rhs_val, conds[i].op)

\* nextTuple: scan_ and rid_ when it returns
RECURSIVE nextTuple(_, _, _, _)
nextTuple(f, conds, srid, rid) ==
    IF scan_is_end(f, srid) THEN [scan_ |-> srid, rid_ |-> rid]
    ELSE IF Satisfies(get_record(f, srid).data, conds)
         THEN [scan_ |-> srid, rid_ |-> srid]
         ELSE nextTuple(f, conds, scan_next(f, srid), srid)

\* SeqScanExecutor(sm_manager, tab_name, conds, context) and beginTuple
SeqBeginTuple ==
    /\ ~scan_open
    /\ \E c \in CondLists :
           LET first == scan_next(TheFile, [page_no |-> RM_FIRST_RECORD_PAGE,
                                            slot_no |-> -1])
               at == nextTuple(TheFile, c, first, rid_)
           IN  /\ conds_' = c
               /\ scan_rid' = at.scan_
               /\ rid_' = at.rid_
    /\ scan_open' = TRUE
    /\ returned' = <<>>
    /\ UNCHANGED <<rmVars, scan_seen, scan_start, logVars, thrVars, txnVars,
                   analyzeVars, updVars, stepVars>>

\* Next while is_end() does not hold: the record at rid_, then scan_->next()
SeqNext ==
    /\ scan_open
    /\ ~scan_is_end(TheFile, scan_rid)
    /\ returned' = Append(returned,
                          [rid |-> rid_, data |-> get_record(TheFile, rid_).data])
    /\ scan_rid' = scan_next(TheFile, scan_rid)
    /\ UNCHANGED <<rmVars, scan_open, scan_seen, scan_start, rid_, conds_,
                   logVars, thrVars, txnVars, analyzeVars, updVars, stepVars>>

\* one round of  for (beginTuple(); !is_end(); nextTuple()) use(Next())
SeqNextThenNextTuple ==
    /\ scan_open
    /\ ~scan_is_end(TheFile, scan_rid)
    /\ returned' = Append(returned,
                          [rid |-> rid_, data |-> get_record(TheFile, rid_).data])
    /\ LET at == nextTuple(TheFile, conds_, scan_next(TheFile, scan_rid), rid_)
       IN  /\ scan_rid' = at.scan_
           /\ rid_' = at.rid_
    /\ UNCHANGED <<rmVars, scan_open, scan_seen, scan_start, conds_,
                   logVars, thrVars, txnVars, analyzeVars, updVars, stepVars>>

\* Next once is_end() holds: nullptr (the driver asks once)
SeqNextAtEnd ==
    /\ scan_open
    /\ scan_is_end(TheFile, scan_rid)
    /\ nullptr \notin {returned[i] : i \in 1 .. Len(returned)}
    /\ returned' = Append(returned, nullptr)
    /\ UNCHANGED <<rmVars, scanVars, rid_, conds_, logVars, thrVars, txnVars,
                   analyzeVars, updVars, stepVars>>

\* the executor is destroyed after the statement
SeqClose ==
    /\ scan_open
    /\ scan_is_end(TheFile, scan_rid)
    /\ scan_open' = FALSE
    /\ scan_rid' = NoRid
    /\ rid_' = NoRid
    /\ conds_' = <<>>
    /\ returned' = <<>>
    /\ UNCHANGED <<rmVars, scan_seen, scan_start, logVars, thrVars, txnVars,
                   analyzeVars, updVars, stepVars>>

\* the driver of the iterator protocol: beginTuple, then Next until is_end()
SeqScanStep ==
    SeqBeginTuple \/ SeqNext \/ SeqNextAtEnd \/ SeqClose \/ ScanFileChange

SpecSeqScan == InitRM /\ [][SeqScanStep]_vars

\* the driver that calls nextTuple after every Next
SeqScanLoopStep ==
    SeqBeginTuple \/ SeqNextThenNextTuple \/ SeqNextAtEnd \/ SeqClose
        \/ ScanFileChange

SpecSeqScanLoop == InitRM /\ [][SeqScanLoopStep]_vars

(***************************************************************************)
(* Analyze::check_column over the columns of the tables of a statement.    *)
(***************************************************************************)
MaxQueryTables == 2

TableNames == {"a", "b"}
ColNames == {"id", "x"}

\* the tables a catalog can hold: column names are unique within a table
Catalogs == [TableNames -> {<<"id">>, <<"x">>, <<"id", "x">>}]

\* the FROM lists of a statement: tables that exist, a table may repeat
FromLists == UNION {[1 .. n -> TableNames] : n \in 1 .. MaxQueryTables}

\* column references as the parser builds them: "" for no qualifier
TabCols == {TabCol(t, c) : t \in {""} \cup TableNames, c \in ColNames \cup {"y"}}

ColMeta(tab_name, name) == [tab_name |-> tab_name, name |-> name]

\* get_all_cols: the columns of the tables, in FROM order
RECURSIVE get_all_cols(_, _)
get_all_cols(db, tab_names) ==
    IF tab_names = <<>> THEN <<>>
    ELSE [i \in 1 .. Len(db[Head(tab_names)]) |->
              ColMeta(Head(tab_names), db[Head(tab_names)][i])]
         \o get_all_cols(db, Tail(tab_names))

\* check_column that keeps the first column of that name
RECURSIVE infer_first(_, _, _)
infer_first(all_cols, col_name, tab_name) ==
    IF all_cols = <<>>
    THEN IF tab_name = "" THEN Checked("ColumnNotFound", TabCol("", col_name))
         ELSE Checked("none", TabCol(tab_name, col_name))
    ELSE IF Head(all_cols).name = col_name /\ tab_name = ""
         THEN infer_first(Tail(all_cols), col_name, Head(all_cols).tab_name)
         ELSE infer_first(Tail(all_cols), col_name, tab_name)

\* the loop of check_column over all_cols, tab_name being its local variable
RECURSIVE infer(_, _, _)
infer(all_cols, col_name, tab_name) ==
    IF all_cols = <<>>
    THEN IF tab_name = "" THEN Checked("ColumnNotFound", TabCol("", col_name))
         ELSE Checked("none", TabCol(tab_name, col_name))
    ELSE IF Head(all_cols).name = col_name
         THEN IF tab_name # ""
              THEN Checked("AmbiguousColumn", TabCol("", col_name))
              ELSE infer(Tail(all_cols), col_name, Head(all_cols).tab_name)
         ELSE infer(Tail(all_cols), col_name, tab_name)

\* Analyze::check_column
check_column(all_cols, target) ==
    IF target.tab_name = "" THEN infer(all_cols, target.col_name, "")
    ELSE Checked("none", target)

InitAnalyze ==
    /\ RmInit
    /\ ScanIdle
    /\ SeqIdle
    /\ UpdateIdle
    /\ StepIdle
    /\ db_ \in Catalogs
    /\ query \in [tables : FromLists, col : TabCols]
    /\ resolved = Unchecked
    /\ LogIdle
    /\ ThreadsIdle
    /\ TxnIdle

\* do_analyze for one column reference of a statement
CheckColumn ==
    /\ resolved = Unchecked
    /\ resolved' = check_column(get_all_cols(db_, query.tables), query.col)
    /\ UNCHANGED <<rmVars, scanVars, logVars, thrVars, txnVars, seqVars, db_, query,
                   updVars, stepVars>>

SpecAnalyze == InitAnalyze /\ [][CheckColumn]_vars

(***************************************************************************)
(* Log manager.  A log value L is [global_lsn, persist_lsn, buffer, file]. *)
(* Everything add_log_to_buffer and flush_log_to_disk do happens under     *)
(* latch_, so each call is one step of the thread that owns the latch.     *)
(***************************************************************************)
TheLog ==
    [global_lsn |-> global_lsn, persist_lsn |-> persist_lsn,
     buffer |-> log_buffer, file |-> log_file]

\* a log record whose prev_lsn_ is left INVALID_LSN
LogRecordNoPrev(type, txn_id, prev) ==
    [log_type |-> type, log_tid |-> txn_id, prev_lsn |-> INVALID_LSN,
     lsn |-> INVALID_LSN]

LogRecord(type, txn_id, prev) ==
    [log_type |-> type, log_tid |-> txn_id, prev_lsn |-> prev, lsn |-> INVALID_LSN]

\* LogBuffer::is_full: the buffer cannot hold one more record
is_full(L) == Len(L.buffer) + 1 > LogBufferRecords

\* flush_log_to_disk that drops the buffer without write_log
flush_log_to_disk_nowrite(L) ==
    IF L.buffer = <<>> THEN L
    ELSE [L EXCEPT !.persist_lsn = L.global_lsn, !.buffer = <<>>]

\* flush_log_to_disk, once latch_ is held
flush_log_to_disk(L) ==
    IF L.buffer = <<>> THEN L
    ELSE [L EXCEPT !.file = L.file \o L.buffer,
                   !.persist_lsn = L.global_lsn,
                   !.buffer = <<>>]

\* add_log_to_buffer that numbers the record global_lsn_ without the ++
add_log_to_buffer_noinc(L, rec) ==
    LET lsn == L.global_lsn
    IN  IF is_full(L)
        THEN [log |-> L, lsn |-> lsn, relock |-> TRUE]
        ELSE [log |-> [L EXCEPT !.buffer = Append(@, [rec EXCEPT !.lsn = lsn])],
              lsn |-> lsn, relock |-> FALSE]

\* add_log_to_buffer, once latch_ is held, up to its return or to the call
\* of flush_log_to_disk at line 28, which locks latch_ again (relock)
add_log_to_buffer(L, rec) ==
    LET lsn == L.global_lsn + 1
        M == [L EXCEPT !.global_lsn = lsn]
    IN  IF is_full(M)
        THEN [log |-> M, lsn |-> lsn, relock |-> TRUE]
        ELSE [log |-> [M EXCEPT !.buffer = Append(@, [rec EXCEPT !.lsn = lsn])],
              lsn |-> lsn, relock |-> FALSE]

SetLog(L) ==
    /\ global_lsn' = L.global_lsn
    /\ persist_lsn' = L.persist_lsn
    /\ log_buffer' = L.buffer
    /\ log_file' = L.file

\* Thread t calls add_log_to_buffer and then goes on at nextPc with the
\* returned LSN as its transaction's prev_lsn.  Locking latch_ a second
\* time in the same thread is undefined for std::mutex: either the thread
\* blocks for ever owning the latch, or lock() throws std::system_error,
\* which leaves add_log_to_buffer and its caller and releases the latch.
AppendBy(t, type, nextPc) ==
    /\ latch = 0
    /\ LET r == add_log_to_buffer(TheLog, LogRecord(type, t, prev_lsn[t]))
       IN  /\ SetLog(r.log)
           /\ IF r.relock
              THEN \/ /\ latch' = t
                      /\ pc' = [pc EXCEPT ![t] = "blocked"]
                      /\ UNCHANGED <<prev_lsn, lsn_ret>>
                   \/ /\ latch' = 0
                      /\ pc' = [pc EXCEPT ![t] = "threw"]
                      /\ UNCHANGED <<prev_lsn, lsn_ret>>
              ELSE /\ latch' = 0
                   /\ pc' = [pc EXCEPT ![t] = nextPc]
                   /\ prev_lsn' = [prev_lsn EXCEPT ![t] = r.lsn]
                   /\ lsn_ret' = [lsn_ret EXCEPT ![t] = Append(@, r.lsn)]

FlushBy(t, nextPc) ==
    /\ latch = 0
    /\ SetLog(flush_log_to_disk(TheLog))
    /\ pc' = [pc EXCEPT ![t] = nextPc]
    /\ UNCHANGED <<latch, prev_lsn, lsn_ret>>

(***************************************************************************)
(* Transaction manager over the log manager: every thread begins one       *)
(* transaction and commits or aborts it; the transactions hold no lock and *)
(* have written nothing.                                                   *)
(***************************************************************************)
\* begin(nullptr, log_manager)
LogBegin(t) ==
    /\ pc[t] = "start"
    /\ txn_state' = [txn_state EXCEPT ![t] = "GROWING"]
    /\ AppendBy(t, "BEGIN", "active")
    /\ UNCHANGED <<execVars, rmVars, scanVars, txnVars>>

\* commit up to the return of add_log_to_buffer
LogCommitAppend(t) ==
    /\ pc[t] = "active"
    /\ txn_state[t] # "COMMITTED"
    /\ AppendBy(t, "COMMIT", "commit_flush")
    /\ UNCHANGED <<execVars, rmVars, scanVars, txnVars, txn_state>>

\* commit: flush_log_to_disk
LogCommitFlush(t) ==
    /\ pc[t] = "commit_flush"
    /\ FlushBy(t, "commit_state")
    /\ UNCHANGED <<execVars, rmVars, scanVars, txnVars, txn_state>>

\* commit: set_state(COMMITTED) and return
LogCommitReturn(t) ==
    /\ pc[t] = "commit_state"
    /\ txn_state' = [txn_state EXCEPT ![t] = "COMMITTED"]
    /\ pc' = [pc EXCEPT ![t] = "done"]
    /\ UNCHANGED <<execVars, rmVars, scanVars, txnVars, logVars, prev_lsn, lsn_ret>>

\* abort up to the return of add_log_to_buffer
LogAbortAppend(t) ==
    /\ pc[t] = "active"
    /\ AppendBy(t, "ABORT", "abort_flush")
    /\ UNCHANGED <<execVars, rmVars, scanVars, txnVars, txn_state>>

\* abort: flush_log_to_disk
LogAbortFlush(t) ==
    /\ pc[t] = "abort_flush"
    /\ FlushBy(t, "abort_state")
    /\ UNCHANGED <<execVars, rmVars, scanVars, txnVars, txn_state>>

\* abort: set_state(ABORTED) and return
LogAbortReturn(t) ==
    /\ pc[t] = "abort_state"
    /\ txn_state' = [txn_state EXCEPT ![t] = "ABORTED"]
    /\ pc' = [pc EXCEPT ![t] = "done"]
    /\ UNCHANGED <<execVars, rmVars, scanVars, txnVars, logVars, prev_lsn, lsn_ret>>

LogNext ==
    \E t \in Threads :
        \/ LogBegin(t)
        \/ LogCommitAppend(t)
        \/ LogCommitFlush(t)
        \/ LogCommitReturn(t)
        \/ LogAbortAppend(t)
        \/ LogAbortFlush(t)
        \/ LogAbortReturn(t)

SpecLog == InitRM /\ [][LogNext]_vars

(***************************************************************************)
(* Lock manager: shared and exclusive record locks keyed by rid.  A        *)
(* request is granted to a GROWING transaction when no other transaction   *)
(* holds a conflicting lock and is refused (it throws) otherwise; a        *)
(* transaction may ask again for a lock it holds.                          *)
(***************************************************************************)
Holds(table, t, rid) == <<rid, t, "S">> \in table \/ <<rid, t, "X">> \in table

CanLockShared(t, rid) ==
    /\ txn_state[t] = "GROWING"
    /\ \A u \in Threads \ {t} : <<rid, u, "X">> \notin lock_table

CanLockExclusive(t, rid) ==
    /\ txn_state[t] = "GROWING"
    /\ \A u \in Threads \ {t} : ~Holds(lock_table, u, rid)

lock_shared_on_record(table, t, rid) == table \cup {<<rid, t, "S">>}

lock_exclusive_on_record(table, t, rid) == table \cup {<<rid, t, "X">>}

\* the unlock loop of commit and abort, leaving the lock table as it was
unlock_all_kept(table, t, ids) == table

\* the unlock loop of commit and abort: unlock(txn, id) for every id of the
\* lock set
unlock_all(table, t, ids) == {l \in table : ~(l[2] = t /\ l[1] \in ids)}

\* the state unlock leaves the transaction in
unlock_state(st, ids) == IF ids # {} /\ st = "GROWING" THEN "SHRINKING" ELSE st

(***************************************************************************)
(* One transaction running alone: statements call the record manager with  *)
(* the transaction's context and append to its write set; commit and abort *)
(* are one step each.                                                      *)
(***************************************************************************)
Alone == {1}

WriteRecord(wtype, rid, data) == [wtype |-> wtype, rid |-> rid, data |-> data]

SetFile(f, hung) ==
    /\ file_hdr' = f.hdr
    /\ pages' = f.pages
    /\ rm_hung' = hung

\* the thread has a transaction and is not inside a call that never returns
Callable(t) == pc[t] \in {"active", "done"} /\ RmRunning

InitTxn ==
    /\ \E f \in SetupFiles(num_records_per_page) :
           /\ file_hdr = f.hdr
           /\ pages = f.pages
    /\ rm_hung = FALSE
    /\ ScanIdle
    /\ ExecIdle
    /\ LogIdle
    /\ ThreadsIdle
    /\ TxnIdle

\* begin(nullptr, log_manager)
TxnBegin(t) ==
    /\ pc[t] = "start"
    /\ txn_state' = [txn_state EXCEPT ![t] = "GROWING"]
    /\ AppendBy(t, "BEGIN", "active")
    /\ begin_file' = [begin_file EXCEPT ![t] = TheFile]
    /\ UNCHANGED <<execVars, rmVars, scanVars, write_set, lockVars, txn_deleted>>

\* insert_record(buf, context) and the INSERT_TUPLE write record
TxnInsert(t) ==
    /\ Callable(t)
    /\ Len(write_set[t]) < MaxWrites
    /\ NeedsNewPage(TheFile) => file_hdr.num_pages <= MaxPages
    /\ \E buf \in Bufs :
        LET h == create_page_handle(TheFile)
            r == insert_record(TheFile, buf)
        IN  IF r.err # "none"
            THEN /\ SetFile(r.f, r.err = "diverges")
                 /\ UNCHANGED txnVars
            ELSE IF ~CanLockExclusive(t, r.rid)
            THEN /\ SetFile(h.f, FALSE)
                 /\ UNCHANGED txnVars
            ELSE /\ SetFile(r.f, FALSE)
                 /\ lock_table' = lock_exclusive_on_record(lock_table, t, r.rid)
                 /\ lock_set' = [lock_set EXCEPT ![t] = @ \cup {r.rid}]
                 /\ write_set' = [write_set EXCEPT ![t] =
                        Append(@, WriteRecord("INSERT_TUPLE", r.rid, 0))]
                 /\ UNCHANGED <<lock_released, begin_file, txn_deleted>>
    /\ UNCHANGED <<execVars, scanVars, logVars, thrVars>>

\* delete_record(rid, context) and the DELETE_TUPLE write record with the
\* bytes the record had
TxnDelete(t) ==
    /\ Callable(t)
    /\ Len(write_set[t]) < MaxWrites
    /\ \E rid \in Rids :
        LET old == get_record(TheFile, rid)
            r == delete_record(TheFile, rid)
        IN  IF r.err # "none" \/ ~CanLockExclusive(t, rid)
            THEN UNCHANGED <<rmVars, txnVars>>
            ELSE /\ SetFile(r.f, FALSE)
                 /\ lock_table' = lock_exclusive_on_record(lock_table, t, rid)
                 /\ lock_set' = [lock_set EXCEPT ![t] = @ \cup {rid}]
                 /\ write_set' = [write_set EXCEPT ![t] =
                        Append(@, WriteRecord("DELETE_TUPLE", rid, old.data))]
                 /\ txn_deleted' = [txn_deleted EXCEPT ![t] = @ \cup {rid}]
                 /\ UNCHANGED <<lock_released, begin_file>>
    /\ UNCHANGED <<execVars, scanVars, logVars, thrVars>>

\* a statement that updates one record and records it: get_record(rid,
\* context), then update_record(rid, new bytes, context), and an UPDATE_TUPLE
\* write record with the bytes get_record returned
TxnUpdate(t) ==
    /\ Callable(t)
    /\ Len(write_set[t]) < MaxWrites
    /\ \E rid \in Rids, buf \in Bufs :
        LET old == get_record(TheFile, rid)
            r == update_record(TheFile, rid, buf)
        IN  IF old.err # "none" \/ ~CanLockShared(t, rid)
            THEN UNCHANGED <<rmVars, txnVars>>
            ELSE IF ~CanLockExclusive(t, rid)
            THEN /\ lock_table' = lock_shared_on_record(lock_table, t, rid)
                 /\ lock_set' = [lock_set EXCEPT ![t] = @ \cup {rid}]
                 /\ UNCHANGED <<rmVars, write_set, lock_released, begin_file,
                                txn_deleted>>
            ELSE /\ SetFile(r.f, FALSE)
                 /\ lock_table' = lock_exclusive_on_record(
                        lock_shared_on_record(lock_table, t, rid), t, rid)
                 /\ lock_set' = [lock_set EXCEPT ![t] = @ \cup {rid}]
                 /\ write_set' = [write_set EXCEPT ![t] =
                        Append(@, WriteRecord("UPDATE_TUPLE", rid, old.data))]
                 /\ UNCHANGED <<lock_released, begin_file, txn_deleted>>
    /\ UNCHANGED <<execVars, scanVars, logVars, thrVars>>

\* get_record(rid, context)
TxnGet(t) ==
    /\ Callable(t)
    /\ \E rid \in Rids :
        IF get_record(TheFile, rid).err # "none" \/ ~CanLockShared(t, rid)
        THEN UNCHANGED lockVars
        ELSE /\ lock_table' = lock_shared_on_record(lock_table, t, rid)
             /\ lock_set' = [lock_set EXCEPT ![t] = @ \cup {rid}]
             /\ UNCHANGED lock_released
    /\ UNCHANGED <<execVars, rmVars, scanVars, logVars, thrVars, write_set, begin_file,
                   txn_deleted>>

\* the end of commit and abort: the unlock loop, the clearing of the sets,
\* the log record, the flush and the final state
Finish(t, type, final) ==
    /\ latch = 0
    /\ global_lsn < MaxLsn
    /\ lock_table' = unlock_all(lock_table, t, lock_set[t])
    /\ lock_released' = [lock_released EXCEPT ![t] = @ \/ lock_set[t] # {}]
    /\ lock_set' = [lock_set EXCEPT ![t] = {}]
    /\ write_set' = [write_set EXCEPT ![t] = <<>>]
    /\ LET r == add_log_to_buffer(TheLog, LogRecord(type, t, prev_lsn[t]))
       IN  IF r.relock
           THEN /\ SetLog(r.log)
                /\ txn_state' = [txn_state EXCEPT ![t] =
                                    unlock_state(@, lock_set[t])]
                /\ \/ latch' = t /\ pc' = [pc EXCEPT ![t] = "blocked"]
                   \/ latch' = 0 /\ pc' = [pc EXCEPT ![t] = "threw"]
                /\ UNCHANGED <<prev_lsn, lsn_ret>>
           ELSE /\ SetLog(flush_log_to_disk(r.log))
                /\ latch' = 0
                /\ prev_lsn' = [prev_lsn EXCEPT ![t] = r.lsn]
                /\ lsn_ret' = [lsn_ret EXCEPT ![t] = Append(@, r.lsn)]
                /\ txn_state' = [txn_state EXCEPT ![t] = final]
                /\ pc' = [pc EXCEPT ![t] = "done"]

\* commit(txn, log_manager); the assert of line 71 ends the process when
\* the transaction is COMMITTED
TxnCommit(t) ==
    /\ Callable(t)
    /\ txn_state[t] # "COMMITTED"
    /\ Finish(t, "COMMIT", "COMMITTED")
    /\ UNCHANGED <<execVars, rmVars, scanVars, begin_file, txn_deleted>>

\* the rollback loop of abort: the inverse of every write record, last
\* first, by record manager calls without a context; an exception of a call
\* ends the loop and leaves abort
RECURSIVE rollback(_, _)
rollback(f, ws) ==
    IF ws = <<>> THEN Result(f, "none", NoRid, 0)
    ELSE LET w == ws[Len(ws)]
             r == CASE w.wtype = "INSERT_TUPLE" -> delete_record(f, w.rid)
                    [] w.wtype = "DELETE_TUPLE" -> insert_record(f, w.data)
                    [] w.wtype = "UPDATE_TUPLE" -> update_record(f, w.rid, w.data)
         IN  IF r.err # "none" THEN r
             ELSE rollback(r.f, SubSeq(ws, 1, Len(ws) - 1))

\* abort(txn, log_manager)
TxnAbort(t) ==
    /\ Callable(t)
    /\ LET r == rollback(TheFile, write_set[t])
       IN  /\ r.f.hdr.num_pages <= MaxPages + 1
           /\ IF r.err # "none"
              THEN /\ SetFile(r.f, r.err = "diverges")
                   /\ UNCHANGED <<logVars, thrVars, write_set, lockVars>>
              ELSE /\ SetFile(r.f, FALSE)
                   /\ Finish(t, "ABORT", "ABORTED")
    /\ UNCHANGED <<execVars, scanVars, begin_file, txn_deleted>>

TxnNext ==
    \E t \in Alone :
        \/ TxnBegin(t)
        \/ TxnInsert(t)
        \/ TxnDelete(t)
        \/ TxnUpdate(t)
        \/ TxnGet(t)
        \/ TxnCommit(t)
        \/ TxnAbort(t)

SpecTxn == InitTxn /\ [][TxnNext]_vars

(***************************************************************************)
(* commit step by step, with a second transaction that reads: the unlock   *)
(* loop, the clearing of the sets, add_log_to_buffer, flush_log_to_disk    *)
(* and set_state are separate steps of the committing thread.              *)
(***************************************************************************)
Writers == {1}

\* the threads whose transactions only read
Readers == {2}

\* commit, lines 71-89: the assert, the unlock loop and the clearing of the
\* write set and the lock set
CommitUnlock(t) ==
    /\ pc[t] = "active"
    /\ RmRunning
    /\ txn_state[t] # "COMMITTED"
    /\ lock_table' = unlock_all(lock_table, t, lock_set[t])
    /\ lock_released' = [lock_released EXCEPT ![t] = @ \/ lock_set[t] # {}]
    /\ txn_state' = [txn_state EXCEPT ![t] = unlock_state(@, lock_set[t])]
    /\ lock_set' = [lock_set EXCEPT ![t] = {}]
    /\ write_set' = [write_set EXCEPT ![t] = <<>>]
    /\ pc' = [pc EXCEPT ![t] = "commit_append"]
    /\ UNCHANGED <<execVars, rmVars, scanVars, logVars, prev_lsn, lsn_ret,
                   begin_file, txn_deleted>>

\* commit, lines 92-96: the COMMIT record and add_log_to_buffer
CommitAppend(t) ==
    /\ pc[t] = "commit_append"
    /\ AppendBy(t, "COMMIT", "commit_flush")
    /\ UNCHANGED <<execVars, rmVars, scanVars, txnVars, txn_state>>

CommitStep ==
    \/ \E t \in Writers :
           \/ TxnBegin(t)
           \/ TxnInsert(t)
           \/ TxnDelete(t)
           \/ TxnUpdate(t)
           \/ CommitUnlock(t)
           \/ CommitAppend(t)
           \/ LogCommitFlush(t)
           \/ LogCommitReturn(t)
    \/ \E t \in Readers :
           \/ TxnBegin(t)
           \/ TxnGet(t)

SpecCommit == InitTxn /\ [][CommitStep]_vars

(***************************************************************************)
(* Record manager calls of concurrent transactions, line by line.  Every   *)
(* worker thread begins a transaction, makes one call of get_record,       *)
(* insert_record, delete_record or update_record with its context and      *)
(* commits.  A call is three steps: the page and bitmap lookup before the  *)
(* lock request, the lock request, and the lines after it.  RmFileHandle   *)
(* has no latch, so the steps of two threads interleave freely.  A lock    *)
(* request that cannot be granted throws and ends the call.                *)
(***************************************************************************)
Workers == {1, 2}

\* the call of thread t goes on at the next step
Goto(t, op, step, rid, buf) ==
    /\ call' = [call EXCEPT ![t] = [op |-> op, step |-> step, rid |-> rid, buf |-> buf]]
    /\ UNCHANGED ret

\* the call of thread t returns or throws
Return(t, op, r) ==
    /\ call' = [call EXCEPT ![t] = [op |-> op, step |-> "done", rid |-> r.rid, buf |-> @.buf]]
    /\ ret' = [ret EXCEPT ![t] = r]

CanCall(t) == Callable(t) /\ pc[t] = "active" /\ call[t].op = "none"

\* get_record lines 26-31, delete_record lines 144-149, update_record lines
\* 182-187: fetch_page_handle and the test of the bit
CheckStep(t) ==
    /\ CanCall(t)
    /\ \E op \in {"get", "delete", "update"}, rid \in Rids, buf \in Bufs :
           LET r == get_record(TheFile, rid)
           IN  /\ op # "update" => buf = 0
               /\ IF r.err # "none"
                  THEN Return(t, op, Ret(r.err, rid, 0, FALSE))
                  ELSE Goto(t, op, "lock", rid, buf)
    /\ UNCHANGED <<rmVars, scanVars, logVars, thrVars, txnVars, seqVars,
                   analyzeVars, updVars, scan_at, scan_owed>>

\* insert_record lines 71-74: create_page_handle and first_bit
InsertPage(t) ==
    /\ CanCall(t)
    /\ NeedsNewPage(TheFile) => file_hdr.num_pages <= MaxPages
    /\ \E buf \in Bufs :
           LET h == create_page_handle(TheFile)
           IN  IF h.kind \in {"diverges", "PageNotExist"}
               THEN /\ SetFile(h.f, h.kind = "diverges")
                    /\ Return(t, "insert", Ret(h.kind, NoRid, 0, FALSE))
               ELSE /\ SetFile(h.f, FALSE)
                    /\ Goto(t, "insert", "lock",
                            [page_no |-> h.page_no,
                             slot_no |-> first_bit_clear(h.f.pages[h.page_no].bitmap)],
                            buf)
    /\ UNCHANGED <<scanVars, logVars, thrVars, txnVars, seqVars, analyzeVars,
                   updVars, scan_at, scan_owed>>

\* a call that goes on to the lines after the lock request without making it
LockStepSkipped(t) ==
    /\ RmRunning
    /\ call[t].step = "lock"
    /\ Goto(t, call[t].op, "write", call[t].rid, call[t].buf)
    /\ UNCHANGED <<rmVars, scanVars, logVars, thrVars, txnVars, seqVars,
                   analyzeVars, updVars, scan_at, scan_owed>>

\* the lock request of the call: lock_shared_on_record in get_record (lines
\* 34-36), lock_exclusive_on_record in insert_record (lines 77-83),
\* delete_record (lines 152-154) and update_record (lines 190-192)
LockStep(t) ==
    /\ RmRunning
    /\ call[t].step = "lock"
    /\ LET rid == call[t].rid
           granted == IF call[t].op = "get" THEN CanLockShared(t, rid)
                                            ELSE CanLockExclusive(t, rid)
       IN  IF granted
           THEN /\ lock_table' = IF call[t].op = "get"
                                 THEN lock_shared_on_record(lock_table, t, rid)
                                 ELSE lock_exclusive_on_record(lock_table, t, rid)
                /\ lock_set' = [lock_set EXCEPT ![t] = @ \cup {rid}]
                /\ Goto(t, call[t].op, "write", rid, call[t].buf)
           ELSE /\ Return(t, call[t].op, Ret("LockRefused", rid, 0, FALSE))
                /\ UNCHANGED <<lock_table, lock_set>>
    /\ UNCHANGED <<rmVars, scanVars, logVars, thrVars, write_set, lock_released,
                   begin_file, txn_deleted, seqVars, analyzeVars, updVars, scan_at, scan_owed>>

\* get_record lines 39-41: the bytes of the slot are copied into the record
GetCopy(t) ==
    /\ RmRunning
    /\ call[t].op = "get" /\ call[t].step = "write"
    /\ LET rid == call[t].rid
       IN  Return(t, "get", Ret("none", rid, pages[rid.page_no].slots[rid.slot_no],
                                pages[rid.page_no].bitmap[rid.slot_no]))
    /\ UNCHANGED <<rmVars, scanVars, logVars, thrVars, txnVars, seqVars,
                   analyzeVars, updVars, scan_at, scan_owed>>

\* insert_record lines 86-96 on the slot first_bit found: memcpy,
\* Bitmap::set, num_records++ and the unlinking of a page that became full
insert_write(f, rid, buf) ==
    LET pg == [f.pages[rid.page_no] EXCEPT
                  !.slots[rid.slot_no] = buf,
                  !.bitmap[rid.slot_no] = TRUE,
                  !.num_records = @ + 1]
        hd == IF pg.num_records = num_records_per_page
              THEN [f.hdr EXCEPT !.first_free_page_no = pg.next_free_page_no]
              ELSE f.hdr
    IN  File(hd, [f.pages EXCEPT ![rid.page_no] = pg])

\* delete_record lines 157-161: Bitmap::reset, num_records-- and
\* release_page_handle
delete_write(f, rid) ==
    release_page_handle(
        File(f.hdr, [f.pages EXCEPT ![rid.page_no] =
                        [@ EXCEPT !.bitmap[rid.slot_no] = FALSE,
                                  !.num_records = @ - 1]]),
        rid.page_no)

\* update_record lines 195-196: memcpy into the slot
update_write(f, rid, buf) ==
    File(f.hdr, [f.pages EXCEPT ![rid.page_no].slots[rid.slot_no] = buf])

\* the lines of insert_record, delete_record and update_record after the
\* lock request
WriteStep(t) ==
    /\ RmRunning
    /\ call[t].op \in {"insert", "delete", "update"} /\ call[t].step = "write"
    /\ LET rid == call[t].rid
           buf == call[t].buf
       IN  /\ SetFile(CASE call[t].op = "insert" -> insert_write(TheFile, rid, buf)
                        [] call[t].op = "delete" -> delete_write(TheFile, rid)
                        [] call[t].op = "update" -> update_write(TheFile, rid, buf),
                      FALSE)
           /\ Return(t, call[t].op, Ret("none", rid, buf, TRUE))
    /\ UNCHANGED <<scanVars, logVars, thrVars, txnVars, seqVars, analyzeVars,
                   updVars, scan_at, scan_owed>>

\* commit of a transaction whose call has ended
WorkerCommit(t) ==
    /\ call[t].step \in {"none", "done"}
    /\ TxnCommit(t)

ThreadsStep ==
    \E t \in Workers :
        \/ TxnBegin(t)
        \/ CheckStep(t)
        \/ InsertPage(t)
        \/ LockStep(t)
        \/ GetCopy(t)
        \/ WriteStep(t)
        \/ WorkerCommit(t)

SpecRMThreads == InitTxn /\ [][ThreadsStep]_vars

(***************************************************************************)
(* UpdateExecutor over the table t(k INT, v INT) with an index on k and an *)
(* index on (k, v).  The bytes of a record are the number 2 * k + v: the   *)
(* column v is its last binary digit, the column k the digits before it.   *)
(* An index is an associative map from keys to rids, held as a set of      *)
(* entries <<key, rid>>.                                                   *)
(***************************************************************************)
MaxRids == 2

Record(k, v) == 2 * k + v

\* rec->data + col->offset, read as the column's int
col_value(rec, col) == IF col = "k" THEN rec \div 2 ELSE rec % 2

\* memcpy(new_rec->data + col->offset, rhs.raw->data, col->len)
set_col(rec, col, val) ==
    IF col = "k" THEN Record(val, col_value(rec, "v"))
    ELSE Record(col_value(rec, "k"), val)

\* ColMeta::type of the columns of t
col_type(col) == "TYPE_INT"

\* the key of a record for an index: its index columns, concatenated
key_of(rec, ix) == [i \in 1 .. Len(ix) |-> col_value(rec, ix[i])]

\* IxIndexHandle::delete_entry(key, txn)
delete_entry(entries, key) == {e \in entries : e[1] # key}

\* IxIndexHandle::insert_entry(key, rid, txn)
insert_entry(entries, key, rid) ==
    {e \in entries : e[1] # key} \cup {<<key, rid>>}

\* the index loop of Next without its delete_entry
reindex_keep_old(ixs, before, after, rid) ==
    [ix \in Indexes |-> insert_entry(ixs[ix], key_of(after, ix), rid)]

\* the index loop of Next for one row: for every index delete_entry(old_key)
\* and insert_entry(new_key, rid)
reindex(ixs, before, after, rid) ==
    [ix \in Indexes |->
        insert_entry(delete_entry(ixs[ix], key_of(before, ix)),
                     key_of(after, ix), rid)]

SetClause(col, val, type) == [lhs |-> col, rhs |-> [val |-> val, type |-> type]]

\* the set clauses of the statements: on the indexed column, on the other
\* column, on both, and with a FLOAT constant for an INT column
SetClauseLists ==
    {<<SetClause("k", 2, "TYPE_INT")>>,
     <<SetClause("k", 1, "TYPE_INT")>>,
     <<SetClause("v", 1, "TYPE_INT")>>,
     <<SetClause("k", 2, "TYPE_INT"), SetClause("v", 0, "TYPE_INT")>>,
     <<SetClause("v", 1, "TYPE_FLOAT")>>,
     <<SetClause("k", 2, "TYPE_INT"), SetClause("v", 1, "TYPE_FLOAT")>>}

\* the loop over set_clauses_: the new record, or IncompatibleTypeError at
\* the first clause whose constant has another type than its column
RECURSIVE set_columns(_, _)
set_columns(rec, clauses) ==
    IF clauses = <<>> THEN [err |-> "none", data |-> rec]
    ELSE LET c == Head(clauses)
         IN  IF col_type(c.lhs) # c.rhs.type
             THEN [err |-> "IncompatibleType", data |-> rec]
             ELSE set_columns(set_col(rec, c.lhs, c.rhs.val), Tail(clauses))

\* the rids vectors the planner hands over: live rids, none twice
RidLists(f) ==
    {rs \in UNION {[1 .. n -> LiveRids(f)] : n \in 0 .. MaxRids} :
        \A i, j \in 1 .. Len(rs) : rs[i] = rs[j] => i = j}

\* the loop of Next over rids_, for the transaction of thread t; st holds the
\* file, the indexes, the lock table and the lock set of the transaction
RECURSIVE update_rows(_, _, _, _)
update_rows(t, st, rids, clauses) ==
    IF rids = <<>> THEN st
    ELSE LET rid == Head(rids)
             rec == get_record(st.f, rid)
             shared == [st EXCEPT !.table = lock_shared_on_record(@, t, rid),
                                  !.locks = @ \cup {rid},
                                  !.rid = rid,
                                  !.row_index = st.index]
             new_rec == set_columns(rec.data, clauses)
             indexed == [shared EXCEPT
                            !.index = reindex(@, rec.data, new_rec.data, rid)]
         IN  IF rec.err # "none"
             THEN [st EXCEPT !.err = rec.err, !.rid = rid, !.row_index = st.index]
             ELSE IF ~CanLockShared(t, rid)
             THEN [st EXCEPT !.err = "LockRefused", !.rid = rid,
                             !.row_index = st.index]
             ELSE IF new_rec.err # "none"
             THEN [shared EXCEPT !.err = new_rec.err]
             ELSE IF ~CanLockExclusive(t, rid)
             THEN [indexed EXCEPT !.err = "LockRefused"]
             ELSE update_rows(
                      t,
                      [indexed EXCEPT
                          !.f = update_record(@, rid, new_rec.data).f,
                          !.table = lock_exclusive_on_record(@, t, rid)],
                      Tail(rids), clauses)

\* the index entries of the records of a file
build_index(f) ==
    [ix \in Indexes |->
        {<<key_of(f.pages[r.page_no].slots[r.slot_no], ix), r>> : r \in LiveRids(f)}]

RECURSIVE InsertRows(_, _)
InsertRows(f, rows) ==
    IF rows = <<>> THEN f
    ELSE InsertRows(insert_record(f, Head(rows)).f, Tail(rows))

\* the tables the statements run on: one or two rows, no key twice
Tables ==
    {<<Record(0, a)>> : a \in Bufs}
        \cup {<<Record(0, a), Record(1, b)>> : a \in Bufs, b \in Bufs}

InitUpdate ==
    /\ \E rows \in Tables :
           /\ file_hdr = InsertRows(EmptyFile, rows).hdr
           /\ pages = InsertRows(EmptyFile, rows).pages
           /\ index = build_index(InsertRows(EmptyFile, rows))
    /\ upd_ret = NotRun
    /\ rm_hung = FALSE
    /\ ScanIdle
    /\ SeqIdle
    /\ AnalyzeIdle
    /\ StepIdle
    /\ LogIdle
    /\ ThreadsIdle
    /\ TxnIdle

\* UpdateExecutor(sm_manager, tab_name, set_clauses, conds, rids, context)
\* and Next, in the transaction of thread t
UpdateNext(t) ==
    /\ Callable(t)
    /\ upd_ret = NotRun
    /\ \E rids \in RidLists(TheFile), clauses \in SetClauseLists :
           LET r == update_rows(t,
                                [f |-> TheFile, index |-> index,
                                 table |-> lock_table, locks |-> lock_set[t],
                                 err |-> "none", rid |-> NoRid,
                                 row_index |-> index],
                                rids, clauses)
           IN  /\ SetFile(r.f, FALSE)
               /\ index' = r.index
               /\ lock_table' = r.table
               /\ lock_set' = [lock_set EXCEPT ![t] = r.locks]
               /\ upd_ret' = UpdateRet(r.err, r.rid, rids, clauses, r.row_index)
    /\ UNCHANGED <<scanVars, logVars, thrVars, seqVars, analyzeVars, stepVars,
                   write_set, lock_released, begin_file, txn_deleted>>

\* thread 1 begins, runs the update statement and commits or aborts, while
\* a reader begins, reads records and commits
UpdateStep ==
    \/ TxnBegin(1)
    \/ UpdateNext(1)
    \/ TxnCommit(1)
    \/ TxnAbort(1)
    \/ \E t \in Readers :
           \/ TxnBegin(t)
           \/ TxnGet(t)
           \/ TxnCommit(t)

SpecUpdate == InitUpdate /\ [][UpdateStep]_vars

(***************************************************************************)
(* Properties of the record manager.                                       *)
(***************************************************************************)
DataPages(f) == RM_FIRST_RECORD_PAGE .. (f.hdr.num_pages - 1)

PopCount(bitmap) == Cardinality({s \in Slots : bitmap[s]})

IsLive(f, rid) == PageExists(f, rid.page_no) /\ f.pages[rid.page_no].bitmap[rid.slot_no]

\* the pages met by following first_free_page_no through next_free_page_no,
\* in order, for at most n steps; the walk stops at a number that is no page
RECURSIVE FreeWalk(_, _, _)
FreeWalk(f, no, n) ==
    IF n = 0 \/ ~PageExists(f, no) \/ no < RM_FIRST_RECORD_PAGE THEN <<>>
    ELSE <<no>> \o FreeWalk(f, f.pages[no].next_free_page_no, n - 1)

\* the walk reaches RM_NO_PAGE within num_pages steps
FreeWalkEnds(f) ==
    LET w == FreeWalk(f, f.hdr.first_free_page_no, f.hdr.num_pages)
    IN  IF w = <<>> THEN f.hdr.first_free_page_no = RM_NO_PAGE
        ELSE /\ Len(w) < f.hdr.num_pages
             /\ f.pages[w[Len(w)]].next_free_page_no = RM_NO_PAGE

\* C3: every data page has num_records equal to the number of set bits of
\* its bitmap, whatever calls (successful or failing) were made.
C3_NumRecordsIsPopCount ==
    \A p \in DataPages(TheFile) :
        pages[p].num_records = PopCount(pages[p].bitmap)

\* C3 witness: two data pages exist, the first one full, the second holding
\* one record beside a slot that was freed by a delete_record.
C3_Witness ==
    /\ file_hdr.num_pages = 3
    /\ pages[1].num_records = num_records_per_page
    /\ pages[2].num_records = 1
    /\ \E s \in Slots : ~pages[2].bitmap[s] /\ pages[2].slots[s] # 0

\* C4: the free list ends at RM_NO_PAGE, holds every data page with a free
\* slot exactly once and holds no full page.
C4_FreeListHoldsNonFullPages ==
    LET w == FreeWalk(TheFile, file_hdr.first_free_page_no, file_hdr.num_pages)
    IN  /\ FreeWalkEnds(TheFile)
        /\ \A p \in DataPages(TheFile) :
               Cardinality({i \in 1 .. Len(w) : w[i] = p}) =
                   IF pages[p].num_records < num_records_per_page THEN 1 ELSE 0

\* the calls the bound on the file size lets the model make
CanInsert(f) == NeedsNewPage(f) => f.hdr.num_pages <= MaxPages

\* get_record of every live rid but rid returns in g what it returns in f
SameBytesElsewhere(f, g, rid) ==
    \A q \in LiveRids(f) \ {rid} :
        /\ get_record(g, q).err = "none"
        /\ get_record(g, q).data = get_record(f, q).data

SameLayout(f, g) ==
    /\ g.hdr = f.hdr
    /\ \A p \in PageNos :
           /\ g.pages[p].bitmap = f.pages[p].bitmap
           /\ g.pages[p].num_records = f.pages[p].num_records
           /\ g.pages[p].next_free_page_no = f.pages[p].next_free_page_no

\* C6: in every state, whichever call comes next: insert_record(buf)
\* returning rid, or a successful update_record(rid, buf), makes
\* get_record(rid) return buf and changes the bytes of no other live record;
\* update_record changes no bitmap, no num_records and no free-list link;
\* and a live record keeps its bytes over every call that is not an
\* update_record or delete_record of its rid.
C6_ReadsLastWrite ==
    LET f == TheFile
    IN  /\ \A buf \in Bufs :
             LET r == insert_record(f, buf)
             IN  (CanInsert(f) /\ r.err = "none") =>
                     /\ get_record(r.f, r.rid).err = "none"
                     /\ get_record(r.f, r.rid).data = buf
                     /\ ~IsLive(f, r.rid)
                     /\ SameBytesElsewhere(f, r.f, r.rid)
        /\ \A rid \in Rids, buf \in Bufs :
             LET r == update_record(f, rid, buf)
             IN  r.err = "none" =>
                     /\ get_record(r.f, rid).err = "none"
                     /\ get_record(r.f, rid).data = buf
                     /\ SameBytesElsewhere(f, r.f, rid)
                     /\ SameLayout(f, r.f)
        /\ \A rid \in Rids :
             /\ SameBytesElsewhere(f, delete_record(f, rid).f, rid)
             /\ delete_record(f, rid).err # "none" => delete_record(f, rid).f = f
             /\ get_record(f, rid).f = f
             /\ \A buf \in Bufs :
                    LET r == insert_record_at(f, rid, buf)
                        u == update_record(f, rid, buf)
                    IN  /\ SameBytesElsewhere(f, r.f, rid)
                        /\ r.err # "none" => r.f = f
                        /\ u.err # "none" => u.f = f

\* C6 witness: records were written on both pages: page 1 holds two records
\* with different bytes and page 2 a record with nonzero bytes.
C6_Witness ==
    /\ IsLive(TheFile, [page_no |-> 1, slot_no |-> 0])
    /\ IsLive(TheFile, [page_no |-> 1, slot_no |-> 1])
    /\ pages[1].slots[0] # pages[1].slots[1]
    /\ \E s \in Slots : IsLive(TheFile, [page_no |-> 2, slot_no |-> s])
                        /\ pages[2].slots[s] = 1

\* C5: over a file that no call changes, the loop driving an RmScan to
\* is_end() has read from rid() every record live at construction exactly
\* once, and never a rid whose bitmap bit is clear.
C5_ScanVisitsLiveOnce ==
    scan_open =>
        /\ \A i \in 1 .. Len(scan_seen) : IsLive(TheFile, scan_seen[i])
        /\ \A i, j \in 1 .. Len(scan_seen) : scan_seen[i] = scan_seen[j] => i = j
        /\ scan_is_end(TheFile, scan_rid) =>
               {scan_seen[i] : i \in 1 .. Len(scan_seen)} = scan_start

\* C5 witness: a finished scan over two pages that read three records and
\* passed a clear slot.
C5_Witness ==
    /\ scan_open
    /\ scan_is_end(TheFile, scan_rid)
    /\ Len(scan_seen) = 3
    /\ file_hdr.num_pages = 3
    /\ \E r \in Rids : PageExists(TheFile, r.page_no) /\ ~IsLive(TheFile, r)

(***************************************************************************)
(* Properties of the log manager and of commit over it.                    *)
(***************************************************************************)
\* every record appended so far, in the order the log holds them
LogSoFar == log_file \o log_buffer

\* C2: once commit has returned for a transaction, its COMMIT record and
\* every record with an LSN up to that record's LSN are in the log file,
\* none of them is still in the log buffer.
C2_CommitIsDurable ==
    \A t \in Threads :
        txn_state[t] = "COMMITTED" =>
            /\ \E i \in 1 .. Len(log_file) :
                   /\ log_file[i].log_type = "COMMIT"
                   /\ log_file[i].log_tid = t
                   /\ log_file[i].lsn = prev_lsn[t]
            /\ \A i \in 1 .. Len(log_buffer) : log_buffer[i].lsn > prev_lsn[t]
            /\ persist_lsn >= prev_lsn[t]

\* a transaction has committed while another one's records came before its
\* COMMIT record in the same flush
C2_Witness ==
    \E t \in Threads :
        /\ txn_state[t] = "COMMITTED"
        /\ \E i \in 1 .. Len(log_file) :
               /\ log_file[i].log_tid # t
               /\ log_file[i].lsn < prev_lsn[t]
               /\ log_file[i].lsn > lsn_ret[t][1]

\* C7: a call of add_log_to_buffer that finds the buffer unable to hold the
\* record writes the buffered records to the log file, leaves the new
\* record alone in the buffer and returns its LSN to the caller.
C7_AppendToFullBufferFlushes ==
    [][(global_lsn' # global_lsn /\ is_full(TheLog)) =>
           /\ log_file' = log_file \o log_buffer
           /\ Len(log_buffer') = 1
           /\ log_buffer'[1].lsn = global_lsn'
           /\ \E t \in Threads : lsn_ret'[t] = Append(lsn_ret[t], global_lsn')
           /\ latch' = 0]_vars

\* C10: the LSNs add_log_to_buffer returns are pairwise distinct,
\* global_lsn_ never decreases, and the records of the log, file then
\* buffer, are in strictly increasing LSN order.
C10_LsnsDistinctAndIncreasing ==
    [][/\ global_lsn' >= global_lsn
       /\ \A t \in Threads : \A i, j \in 1 .. Len(lsn_ret'[t]) :
              i # j => lsn_ret'[t][i] # lsn_ret'[t][j]
       /\ \A t, u \in Threads : \A i \in 1 .. Len(lsn_ret'[t]) :
              \A j \in 1 .. Len(lsn_ret'[u]) :
                  t # u => lsn_ret'[t][i] # lsn_ret'[u][j]
       /\ \A i, j \in 1 .. Len(LogSoFar') :
              i < j => LogSoFar'[i].lsn < LogSoFar'[j].lsn]_vars

\* two threads have interleaved their appends, part of the log is in the
\* file and part in the buffer
C10_Witness ==
    /\ log_file # <<>>
    /\ log_buffer # <<>>
    /\ \E t, u \in Threads :
           /\ t # u
           /\ Len(lsn_ret[t]) = 2
           /\ Len(lsn_ret[u]) >= 1
           /\ lsn_ret[t][1] < lsn_ret[u][1]
           /\ lsn_ret[u][1] < lsn_ret[t][2]

(***************************************************************************)
(* Properties of a transaction running alone.                              *)
(***************************************************************************)
\* the live records of f that hold the bytes b
LiveWith(f, b) == {r \in LiveRids(f) : get_record(f, r).data = b}

Committed(t) ==
    \E i \in 1 .. Len(LogSoFar) :
        LogSoFar[i].log_tid = t /\ LogSoFar[i].log_type = "COMMIT"

LogRecordsOf(log, t) == Cardinality({i \in 1 .. Len(log) : log[i].log_tid = t})

\* C1: once abort has returned for a transaction that wrote every mutation
\* to its write set, the file holds the records it held at begin: as many
\* live records with each bytes as at begin (a deleted record may be back
\* at another rid, an inserted one is gone), and every record of begin the
\* transaction did not delete is live at its rid with the bytes of begin.
C1_AbortRestoresBytes ==
    \A t \in Threads :
        (txn_state[t] = "ABORTED" /\ ~Committed(t)) =>
            /\ \A b \in Bufs :
                   Cardinality(LiveWith(TheFile, b)) =
                       Cardinality(LiveWith(begin_file[t], b))
            /\ \A r \in LiveRids(begin_file[t]) \ txn_deleted[t] :
                   /\ r \in LiveRids(TheFile)
                   /\ get_record(TheFile, r).data = get_record(begin_file[t], r).data

\* C8: a transaction's state moves only along GROWING -> SHRINKING,
\* GROWING/SHRINKING -> COMMITTED and GROWING/SHRINKING -> ABORTED, and once
\* it is COMMITTED or ABORTED no step changes it or adds a log record of
\* the transaction.
C8_FinalStatesAreFinal ==
    [][\A t \in Threads :
           /\ \/ txn_state'[t] = txn_state[t]
              \/ <<txn_state[t], txn_state'[t]>> \in
                     {<<"NONE", "GROWING">>, <<"GROWING", "SHRINKING">>,
                      <<"GROWING", "COMMITTED">>, <<"SHRINKING", "COMMITTED">>,
                      <<"GROWING", "ABORTED">>, <<"SHRINKING", "ABORTED">>}
           /\ txn_state[t] \in {"COMMITTED", "ABORTED"} =>
                  /\ txn_state'[t] = txn_state[t]
                  /\ LogRecordsOf(LogSoFar', t) = LogRecordsOf(LogSoFar, t)]_vars

\* C9: a transaction takes no lock after its first unlock; its locks are
\* released only by a step of commit or abort, which is the step that
\* appends its COMMIT or ABORT record; and when commit or abort has returned
\* its lock set is empty and the lock table holds no lock of it.
C9_TwoPhaseLocking ==
    [][\A t \in Threads :
           /\ (\E r \in Rids : Holds(lock_table', t, r) /\ ~Holds(lock_table, t, r))
                  => ~lock_released[t] /\ ~lock_released'[t]
           /\ lock_set'[t] \ lock_set[t] # {} => ~lock_released[t]
           /\ (\E r \in Rids : Holds(lock_table, t, r) /\ ~Holds(lock_table', t, r))
                  => /\ Len(LogSoFar') = Len(LogSoFar) + 1
                     /\ LogSoFar'[Len(LogSoFar')].log_tid = t
                     /\ LogSoFar'[Len(LogSoFar')].log_type \in {"COMMIT", "ABORT"}
           /\ txn_state'[t] \in {"COMMITTED", "ABORTED"} =>
                  /\ lock_set'[t] = {}
                  /\ \A r \in Rids : ~Holds(lock_table', t, r)]_vars

\* an aborted transaction that had deleted a record under an exclusive lock
\* and has released its locks
C9_Witness ==
    \E t \in Threads :
        /\ txn_state[t] = "ABORTED"
        /\ lock_released[t]
        /\ txn_deleted[t] # {}
        /\ ~Committed(t)
        /\ lock_set[t] = {}

\* the positions in the log of the records of transaction t
RecordsOf(log, t) == {i \in 1 .. Len(log) : log[i].log_tid = t}

\* C11: the first record of a transaction in the log is its BEGIN record
\* with prev_lsn INVALID_LSN; every later record of the transaction has
\* prev_lsn equal to the LSN of the transaction's record before it and a
\* greater LSN, whatever records of other transactions lie between them.
C11_PrevLsnChain ==
    \A t \in Threads : \A i \in RecordsOf(LogSoFar, t) :
        LET before == {j \in RecordsOf(LogSoFar, t) : j < i}
        IN  IF before = {}
            THEN /\ LogSoFar[i].log_type = "BEGIN"
                 /\ LogSoFar[i].prev_lsn = INVALID_LSN
            ELSE LET j == CHOOSE k \in before : \A m \in before : m <= k
                 IN  /\ LogSoFar[i].log_type \in {"COMMIT", "ABORT"}
                     /\ LogSoFar[i].prev_lsn = LogSoFar[j].lsn
                     /\ LogSoFar[i].lsn > LogSoFar[j].lsn

\* a COMMIT record whose prev_lsn points over a record of another
\* transaction to the BEGIN record of its own
C11_Witness ==
    \E i, k \in 1 .. Len(LogSoFar) :
        /\ LogSoFar[i].log_type = "COMMIT"
        /\ LogSoFar[k].log_tid # LogSoFar[i].log_tid
        /\ LogSoFar[i].prev_lsn < LogSoFar[k].lsn
        /\ LogSoFar[k].lsn < LogSoFar[i].lsn
        /\ LogSoFar[i].prev_lsn # INVALID_LSN

\* rids a caller may pass: data pages that exist, data pages that do not,
\* and a negative page number
AnyRids == [page_no : {-1} \cup (1 .. MaxPages + 1), slot_no : Slots]

BitSet(f, rid) == PageExists(f, rid.page_no) /\ f.pages[rid.page_no].bitmap[rid.slot_no]

\* the error the spec names for a call on rid that looks for a live record
LookupError(f, rid) ==
    IF ~PageExists(f, rid.page_no) THEN "PageNotExist"
    ELSE IF ~BitSet(f, rid) THEN "RecordNotFound" ELSE "none"

\* C16: from every reachable file, get_record, update_record and
\* delete_record fail with PageNotExist on a page number out of range and
\* with RecordNotFound on a clear bit, insert_record at a rid fails with
\* Internal on a set bit, and a call that fails returns the file as it was.
C16_FailingCallsChangeNothing ==
    \A rid \in AnyRids, buf \in Bufs :
        LET f == TheFile
            g == get_record(f, rid)
            u == update_record(f, rid, buf)
            d == delete_record(f, rid)
            i == insert_record_at(f, rid, buf)
        IN  /\ g.err = LookupError(f, rid)
            /\ u.err = LookupError(f, rid)
            /\ d.err = LookupError(f, rid)
            /\ BitSet(f, rid) => i.err = "Internal"
            /\ ~PageExists(f, rid.page_no) => i.err = "PageNotExist"
            /\ \A r \in {g, u, d, i} : r.err # "none" => r.f = f

\* a file with a live record, a free slot that held a record before, and a
\* page number that does not exist yet: every failure can happen
C16_Witness ==
    /\ file_hdr.num_pages = 2
    /\ \E s, t \in Slots :
           /\ pages[1].bitmap[s]
           /\ ~pages[1].bitmap[t]
           /\ pages[1].slots[t] = 1
    /\ update_record(TheFile, [page_no |-> 2, slot_no |-> 0], 0).err = "PageNotExist"
    /\ update_record(TheFile, [page_no |-> -1, slot_no |-> 0], 0).err = "PageNotExist"

\* the files that up to k calls of delete_record on live records other than
\* rid make of the files F
RECURSIVE AfterDeletes(_, _, _)
AfterDeletes(F, rid, k) ==
    IF k = 0 THEN F
    ELSE F \cup AfterDeletes(
                   {delete_record(g, r).f : g \in F, r \in Rids \ {rid}},
                   rid, k - 1)

\* the files in which insert_record has returned rid, delete_record(rid) has
\* freed it, and only calls of delete_record have followed
FreedAgain(f, buf) ==
    LET i == insert_record(f, buf)
    IN  IF i.err # "none" THEN {}
        ELSE {[rid |-> i.rid, f |-> g] :
                 g \in AfterDeletes({delete_record(i.f, i.rid).f}, i.rid,
                                    Cardinality(Rids))}

LowerSlotsSet(f, rid) ==
    \A s \in Slots : s < rid.slot_no => f.pages[rid.page_no].bitmap[s]

\* C18 as stated: the insert_record that follows returns rid if and only if
\* rid's page is first_free_page_no when it runs.
C18_ReusedIffHead ==
    CanInsert(TheFile) =>
        \A c \in FreedAgain(TheFile, 1) :
            (insert_record(c.f, 0).rid = c.rid) <=>
                (c.rid.page_no = c.f.hdr.first_free_page_no)

\* C18 amended: the insert_record that follows returns rid if and only if
\* rid's page is first_free_page_no when it runs and no slot of that page
\* below rid's slot has been freed.
C18_ReusedIffHeadAndLowest ==
    CanInsert(TheFile) =>
        \A c \in FreedAgain(TheFile, 1) :
            (insert_record(c.f, 0).rid = c.rid) <=>
                /\ c.rid.page_no = c.f.hdr.first_free_page_no
                /\ LowerSlotsSet(c.f, c.rid)

\* from this file the freed slot is reused after one sequence of deletes,
\* lost to another page after a second and lost to a lower slot of its own
\* page after a third
C18_Witness ==
    /\ CanInsert(TheFile)
    /\ \E c \in FreedAgain(TheFile, 1) : insert_record(c.f, 0).rid = c.rid
    /\ \E c \in FreedAgain(TheFile, 1) :
           c.rid.page_no # c.f.hdr.first_free_page_no
    /\ \E c \in FreedAgain(TheFile, 1) :
           /\ c.rid.page_no = c.f.hdr.first_free_page_no
           /\ ~LowerSlotsSet(c.f, c.rid)

Rid(page_no, slot_no) == [page_no |-> page_no, slot_no |-> slot_no]

\* the rids of: three inserts, delete of the first, two inserts
Scenario6 ==
    LET a == insert_record(EmptyFile, 1)
        b == insert_record(a.f, 1)
        c == insert_record(b.f, 1)
        d == delete_record(c.f, a.rid)
        e == insert_record(d.f, 1)
        g == insert_record(e.f, 1)
    IN  [rids |-> <<a.rid, b.rid, c.rid, e.rid, g.rid>>,
         head |-> d.f.hdr.first_free_page_no]

RECURSIVE MatchingIn(_, _, _)
MatchingIn(f, conds, D) ==
    IF D = {} THEN <<>>
    ELSE LET r == CHOOSE x \in D : \A y \in D : y = x \/ RidBefore(x, y)
             data == f.pages[r.page_no].slots[r.slot_no]
         IN  (IF Satisfies(data, conds) THEN <<[rid |-> r, data |-> data]>>
              ELSE <<>>) \o MatchingIn(f, conds, D \ {r})

Matching(f, conds) == MatchingIn(f, conds, LiveRids(f))

Records(out) == SelectSeq(out, LAMBDA x : x # nullptr)

\* C15: driven by beginTuple and then Next until is_end() holds, the
\* executor returns only records that satisfy every condition, and when
\* is_end() holds it has returned each live record that satisfies them
\* exactly once, in rid order; Next then returns nothing.
C15_EachMatchOnceInRidOrder ==
    scan_open =>
        /\ \A i \in 1 .. Len(returned) :
               returned[i] # nullptr => Satisfies(returned[i].data, conds_)
        /\ scan_is_end(TheFile, scan_rid) =>
               Records(returned) = Matching(TheFile, conds_)
        /\ \A i \in 1 .. Len(returned) :
               returned[i] = nullptr =>
                   i = Len(returned) /\ scan_is_end(TheFile, scan_rid)

\* the columns of the referenced tables that have the name of the reference
Owners(all_cols, col_name) ==
    {i \in 1 .. Len(all_cols) : all_cols[i].name = col_name}

\* C19: a column reference without a table qualifier is returned qualified
\* with the owning table if exactly one column of the referenced tables has
\* its name, fails with AmbiguousColumn if more than one has it and with
\* ColumnNotFound if none has it.
C19_UnqualifiedColumnResolution ==
    (resolved # Unchecked /\ query.col.tab_name = "") =>
        LET all_cols == get_all_cols(db_, query.tables)
            owners == Owners(all_cols, query.col.col_name)
        IN  /\ Cardinality(owners) = 1 =>
                \E i \in owners :
                    resolved = Checked("none", TabCol(all_cols[i].tab_name,
                                                      query.col.col_name))
            /\ Cardinality(owners) > 1 => resolved.err = "AmbiguousColumn"
            /\ Cardinality(owners) = 0 => resolved.err = "ColumnNotFound"

\* C19 witness: SELECT id FROM a, b with a(id) and b(id) was refused as
\* ambiguous.
C19_Witness ==
    /\ query = [tables |-> <<"a", "b">>, col |-> TabCol("", "id")]
    /\ db_["a"] = <<"id">> /\ db_["b"] = <<"id">>
    /\ resolved # Unchecked
    /\ resolved.err = "AmbiguousColumn"

\* the positions an RmScan can be asked to advance from
ScanRids == [page_no : PageNos, slot_no : {-1} \cup Slots]

\* C17: every record-manager call, with or without a context, succeeding or
\* failing, leaves the pin count of every page as it found it.
C17_PinsBalanced ==
    RmRunning =>
        /\ \A rid \in AnyRids, c \in Contexts, refused \in BOOLEAN :
               /\ get_record_pins(TheFile, rid, c, refused) = NoPins
               /\ delete_record_pins(TheFile, rid, c, refused) = NoPins
               /\ update_record_pins(TheFile, rid, c, refused) = NoPins
               /\ insert_record_at_pins(TheFile, rid) = NoPins
        /\ \A c \in Contexts, refused \in BOOLEAN :
               ~NeedsNewPage(TheFile) =>
                   insert_record_pins(TheFile, c, refused) = NoPins
        /\ \A rid \in ScanRids :
               rid.page_no < file_hdr.num_pages =>
                   scan_next_pins(TheFile, rid, NoPins) = NoPins

\* the rows an UpdateExecutor was given, with the image each had when the
\* transaction of thread t began and the image the set clauses make of it
UpdatedRows(t) ==
    {[rid |-> upd_ret.rids[i],
      before |-> get_record(begin_file[t], upd_ret.rids[i]).data,
      after |-> set_columns(get_record(begin_file[t], upd_ret.rids[i]).data,
                            upd_ret.set_clauses).data] :
        i \in 1 .. Len(upd_ret.rids)}

\* an ABORT record of the transaction of thread t is in the log file
AbortOnDisk(t) ==
    \E i \in 1 .. Len(log_file) :
        log_file[i].log_tid = t /\ log_file[i].log_type = "ABORT"

\* C12: after a transaction changed the indexed column of a row through
\* UpdateExecutor and abort has returned for it, the record has the bytes it
\* had before the update, every index holds the old key for its rid and not
\* the new key, an ABORT record of the transaction is on disk and the
\* transaction is ABORTED.
C12_AbortUndoesUpdate ==
    (upd_ret.err = "none" /\ pc[1] = "done" /\ txn_state[1] = "ABORTED"
        /\ ~Committed(1)) =>
        \A row \in UpdatedRows(1) :
            key_of(row.before, <<"k">>) # key_of(row.after, <<"k">>) =>
                /\ get_record(TheFile, row.rid).data = row.before
                /\ \A ix \in Indexes :
                       /\ <<key_of(row.before, ix), row.rid>> \in index[ix]
                       /\ \A e \in index[ix] : e[1] # key_of(row.after, ix)
                /\ AbortOnDisk(1)

\* the entries of the indexes that belong to a row: those of its rid and
\* those of the key of its bytes
EntriesOf(ixs, rid, rec) ==
    [ix \in Indexes |->
        {e \in ixs[ix] : e[2] = rid \/ e[1] = key_of(rec, ix)}]

\* C13: when Next of an UpdateExecutor ends with an exception at a row, that
\* row is untouched: its bytes are unchanged and the indexes hold for it the
\* entries they held when Next began the row.
C13_FailedRowUntouched ==
    upd_ret.err \notin {"pending", "none"} =>
        LET before == get_record(begin_file[1], upd_ret.rid).data
        IN  /\ get_record(TheFile, upd_ret.rid).data = before
            /\ EntriesOf(index, upd_ret.rid, before) =
                   EntriesOf(upd_ret.row_index, upd_ret.rid, before)

\* no other record of the file has the key of this after image
KeyIsFree(f, row, ix) ==
    \A r \in LiveRids(f) \ {row.rid} :
        key_of(get_record(f, r).data, ix) # key_of(row.after, ix)

FreeLinks(f) ==
    [head |-> f.hdr.first_free_page_no,
     next |-> [p \in PageNos |-> f.pages[p].next_free_page_no]]

\* C21: delete_record of a live record clears its bit and decrements
\* num_records; when the page was full it becomes the head of the free list
\* with its next link set to the previous head, and when the page was not
\* full the head and every next link stay as they were.  Nothing else of the
\* file changes.
C21_DeleteRelinksOnlyFullPage ==
    RmRunning =>
        \A rid \in LiveRids(TheFile) :
            LET g == delete_record(TheFile, rid).f
                no == rid.page_no
                full == pages[no].num_records = num_records_per_page
            IN  /\ ~g.pages[no].bitmap[rid.slot_no]
                /\ g.pages[no].num_records = pages[no].num_records - 1
                /\ \A s \in Slots \ {rid.slot_no} :
                       g.pages[no].bitmap[s] = pages[no].bitmap[s]
                /\ g.pages[no].slots = pages[no].slots
                /\ g.hdr.num_pages = file_hdr.num_pages
                /\ \A p \in PageNos \ {no} : g.pages[p] = pages[p]
                /\ full => /\ g.hdr.first_free_page_no = no
                           /\ g.pages[no].next_free_page_no =
                                  file_hdr.first_free_page_no
                /\ ~full => FreeLinks(g) = FreeLinks(TheFile)

\* C21 witness: page 1 was full while page 2 headed the free list, and a
\* delete_record made page 1 the head, linked to page 2; page 2 holds a
\* record whose delete leaves the list alone.
C21_Witness ==
    /\ file_hdr.first_free_page_no = 1
    /\ pages[1].num_records = num_records_per_page - 1
    /\ pages[1].next_free_page_no = 2
    /\ pages[2].num_records = 1
    /\ pages[2].next_free_page_no = RM_NO_PAGE

\* the LSNs of the records of the log file
LsnsOnDisk == {log_file[i].lsn : i \in 1 .. Len(log_file)}

\* C25: every log record whose LSN is at most persist_lsn is in the log
\* file; the LSNs given to records are 1 .. global_lsn.
C25_PersistLsnIsOnDisk ==
    \A n \in 1 .. global_lsn : n <= persist_lsn => n \in LsnsOnDisk

\* C26: in every state that insert_record, insert_record at a rid and
\* delete_record calls lead to, insert_record terminates: create_page_handle
\* skips full pages at the head of the free list only finitely often.
C26_InsertTerminates ==
    /\ RmRunning
    /\ create_page_handle(TheFile).kind # "diverges"


\* C27: whatever write set a transaction has built with its own inserts,
\* deletes and updates, abort runs every inverse without an error and
\* completes: the transaction is ABORTED, its lock set and write set are
\* empty and it holds no lock
C27_AbortCompletes ==
    [][\A t \in Alone :
           TxnAbort(t) =>
               /\ txn_state'[t] = "ABORTED"
               /\ lock_set'[t] = {}
               /\ write_set'[t] = <<>>
               /\ \A rid \in Rids : ~Holds(lock_table', t, rid)]_vars

\* the COMMIT record of transaction t is in the log file
CommitOnDisk(t) ==
    \E i \in 1 .. Len(log_file) :
        log_file[i].log_tid = t /\ log_file[i].log_type = "COMMIT"

\* the slot of rid is not what it was when transaction t began
WrittenSince(t, rid) ==
    /\ begin_file[t] # <<>>
    /\ \/ ~PageExists(begin_file[t], rid.page_no)
       \/ begin_file[t].pages[rid.page_no].bitmap[rid.slot_no] #
              pages[rid.page_no].bitmap[rid.slot_no]
       \/ begin_file[t].pages[rid.page_no].slots[rid.slot_no] #
              pages[rid.page_no].slots[rid.slot_no]

\* C28: as long as the COMMIT record of a transaction is not in the log
\* file, no other transaction holds a lock on a record the transaction has
\* written
C28_WriteLocksHeldUntilCommitOnDisk ==
    \A t \in Writers, rid \in Rids :
        (PageExists(TheFile, rid.page_no) /\ WrittenSince(t, rid) /\ ~CommitOnDisk(t)) =>
            \A u \in Threads \ {t} : ~Holds(lock_table, u, rid)

\* thread t takes a step of its record manager call
Acts(t) == call'[t] # call[t]

\* the step changes a slot byte or the bitmap bit of rid
SlotChanged(rid) ==
    \/ pages'[rid.page_no].slots[rid.slot_no] # pages[rid.page_no].slots[rid.slot_no]
    \/ pages'[rid.page_no].bitmap[rid.slot_no] # pages[rid.page_no].bitmap[rid.slot_no]

\* the step changes a slot byte, a bitmap bit or num_records of page no
ContentChanged(no) ==
    \/ pages'[no].slots # pages[no].slots
    \/ pages'[no].bitmap # pages[no].bitmap
    \/ pages'[no].num_records # pages[no].num_records

\* C22: with a transaction in the context, get_record copies the bytes only
\* while the transaction holds the S lock on the rid; a step of insert_record,
\* update_record or delete_record that changes a slot byte, a bitmap bit or
\* num_records of a page of the file is taken while the transaction holds the
\* X lock on the rid of the call and changes that rid's page only; and a call
\* whose lock request is refused leaves every page as it was
C22_LockBeforeAccess ==
    [][\A t \in Workers :
           Acts(t) =>
               /\ (call[t].op = "get" /\ ret'[t].err = "none") =>
                      <<call[t].rid, t, "S">> \in lock_table
               /\ \A no \in PageNos :
                      (PageExists(TheFile, no) /\ ContentChanged(no)) =>
                          /\ call[t].op \in {"insert", "delete", "update"}
                          /\ <<call[t].rid, t, "X">> \in lock_table
                          /\ no = call[t].rid.page_no
                          /\ \A rid \in Rids :
                                 (rid.page_no = no /\ SlotChanged(rid)) => rid = call[t].rid
               /\ (call[t].step = "lock" /\ call'[t].step = "done") =>
                      /\ ret'[t].err = "LockRefused"
                      /\ \A no \in PageNos :
                             PageExists(TheFile, no) => ~ContentChanged(no)]_vars

\* one call has written under its X lock, a get_record has copied under its S
\* lock or a lock request was refused
C22_Witness ==
    \E t \in Workers : \E u \in Workers \ {t} :
        /\ call[t].op \in {"insert", "delete", "update"} /\ ret[t].err = "none"
        /\ ret[u].err = "LockRefused"

\* C24: two insert_record calls of different transactions that ran
\* concurrently have returned different rids, and afterwards every page has
\* num_records equal to the number of its set bits and both records are
\* there with the bytes of their own call
C24_ConcurrentInsertsDistinct ==
    \A t \in Workers : \A u \in Workers \ {t} :
        (/\ call[t].op = "insert" /\ ret[t].err = "none"
         /\ call[u].op = "insert" /\ ret[u].err = "none") =>
            /\ ret[t].rid # ret[u].rid
            /\ \A no \in DataPages(TheFile) :
                   pages[no].num_records = PopCount(pages[no].bitmap)
            /\ get_record(TheFile, ret[t].rid).err = "none"
            /\ get_record(TheFile, ret[t].rid).data = call[t].buf

\* C29: a get_record with a transaction context that returned a record
\* copied the bytes of a slot whose bit was set at the moment of the copy
C29_GetReturnsLiveRecord ==
    \A t \in Workers :
        (call[t].op = "get" /\ ret[t].err = "none") => ret[t].live

SeenRids == {scan_seen[i] : i \in 1 .. Len(scan_seen)}

\* C23: while inserts and deletes of another thread come between the steps
\* of RmScan::next, every next() called while is_end() is false leaves rid
\* after the rid it was called at, so no slot is reported twice and none is
\* gone back to; and when the scan ends it has reported every record that
\* was inserted into a page past its page_no and not deleted since
C23_ScanMonotoneAndComplete ==
    /\ \A i, j \in 1 .. Len(scan_seen) : i < j => RidBefore(scan_seen[i], scan_seen[j])
    /\ (scan_open /\ scan_at = "idle" /\ scan_seen # <<>>) =>
           RidBefore(scan_seen[Len(scan_seen)], scan_rid)
    /\ (scan_open /\ scan_at = "idle" /\ scan_is_end(TheFile, scan_rid)) =>
           scan_owed \subseteq SeenRids

\* the rids a scan reports strictly increase, whatever the other thread does
ScanRidsIncrease ==
    /\ \A i, j \in 1 .. Len(scan_seen) : i < j => RidBefore(scan_seen[i], scan_seen[j])
    /\ (scan_open /\ scan_at = "idle" /\ scan_seen # <<>>) =>
           RidBefore(scan_seen[Len(scan_seen)], scan_rid)

====
